---------------------------- MODULE Spec2Model ----------------------------
(***************************************************************************)
(* Model of Evolve/creature.py: PenPosition, Chromosome, Genotype and      *)
(* Creature.                                                               *)
(*                                                                         *)
(* Representation choices.                                                 *)
(*  - A chromosome value is a 32-bit unsigned integer.  It is kept as a    *)
(*    record [hi, lo] of two 16-bit halves, because the model checker's    *)
(*    integers are signed 32-bit; the bitwise operators work per half.     *)
(*  - Coordinates are fixed point, in thousandths of a pixel, and the      *)
(*    turtle's sine and cosine are a table of thousandths for whole        *)
(*    degrees.  Headings are whole degrees in 0..359 (standard turtle      *)
(*    mode: 0 = east, 90 = up, left turns increase the heading).           *)
(*  - Objects are values; where identity matters (the chromosomes shared   *)
(*    between a genotype and its mutated copy) objects live in a heap and  *)
(*    are named by their position in it.                                   *)
(***************************************************************************)
EXTENDS Integers, Sequences, FiniteSets

VARIABLES
    heap,                 \* Chromosome instances, named by position
    genotypes,            \* Genotype instances: each its chromosomes list (heap ids)
    creatures,            \* Creature instances: [genotype |-> genotype id]
    lastCall,             \* the last constructor / mutatedChild call and its random draws
    creaturePanel,        \* the panel handed to display
    pen,                  \* the turtle: position, heading, pen state, what it rendered
    chromosomes,          \* display: self.genotype.chromosomes, dereferenced
    segmentPenPositions,  \* display: one list of PenPositions per chromosome
    chromosomeNumber,     \* display: index of the generation loop (0-based)
    segmentIndex,         \* display: position in the current generation's list (1-based)
    pc,                   \* display: where the call stands
    result,               \* display: the value returned ("none" before it returns)
    exitLine,             \* display: the source line of the return statement taken
    tested,               \* log of the segmentOutOfBounds calls display made
    drawn                 \* log of the drawSingleSegment calls display made

vars == <<heap, genotypes, creatures, lastCall, creaturePanel, pen, chromosomes,
          segmentPenPositions, chromosomeNumber, segmentIndex, pc, result,
          exitLine, tested, drawn>>

genotypeVars == <<heap, genotypes, creatures, lastCall>>

displayVars == <<creaturePanel, pen, chromosomes, segmentPenPositions,
                 chromosomeNumber, segmentIndex, pc, result, exitLine, tested, drawn>>

\* Python's None: a record, so that it compares unequal to every object.
None == [isNone |-> TRUE]

(***************************************************************************)
(* 32-bit unsigned words as two 16-bit halves, and the bitwise operators   *)
(* the program applies to chromosome values.                               *)
(***************************************************************************)
RECURSIVE BitAnd(_, _)
BitAnd(a, b) ==
    IF a = 0 \/ b = 0 THEN 0
    ELSE (a % 2) * (b % 2) + 2 * BitAnd(a \div 2, b \div 2)

RECURSIVE BitOr(_, _)
BitOr(a, b) ==
    IF a = 0 THEN b
    ELSE IF b = 0 THEN a
    ELSE (IF a % 2 = 1 \/ b % 2 = 1 THEN 1 ELSE 0) + 2 * BitOr(a \div 2, b \div 2)

RECURSIVE BitXor(_, _)
BitXor(a, b) ==
    IF a = 0 THEN b
    ELSE IF b = 0 THEN a
    ELSE (((a % 2) + (b % 2)) % 2) + 2 * BitXor(a \div 2, b \div 2)

\* 2^n, for n in 0..30
Pow2(n) ==
    <<1, 2, 4, 8, 16, 32, 64, 128, 256, 512, 1024, 2048, 4096, 8192, 16384, 32768,
      65536, 131072, 262144, 524288, 1048576, 2097152, 4194304, 8388608, 16777216,
      33554432, 67108864, 134217728, 268435456, 536870912, 1073741824>>[n + 1]

\* The word whose halves are hi and lo.
Word(hi, lo) == [hi |-> hi, lo |-> lo]

\* The word of a non-negative integer below 2^31.
WordOf(n) == Word(n \div 65536, n % 65536)

\* The integer of a word whose bit 31 is clear.
IntOf(w) == w.hi * 65536 + w.lo

And32(v, w) == Word(BitAnd(v.hi, w.hi), BitAnd(v.lo, w.lo))
Or32(v, w)  == Word(BitOr(v.hi, w.hi), BitOr(v.lo, w.lo))
Xor32(v, w) == Word(BitXor(v.hi, w.hi), BitXor(v.lo, w.lo))

\* 1 << bit, for bit in 0..31.
OneShiftedLeft(bit) ==
    IF bit < 16 THEN Word(0, Pow2(bit)) ELSE Word(Pow2(bit - 16), 0)

\* n >> shift
ShiftRight(n, shift) == n \div Pow2(shift)

(***************************************************************************)
(* Chromosome: the gene masks and shifts (class attributes).               *)
(***************************************************************************)
_BRANCH_ANGLE_GENE_BITS == 63
_BRANCH_ANGLE_SHIFT_NUMBER == 0
_LENGTH_GENE_BITS == 1984
_LENGTH_SHIFT_NUMBER == 6
_SYMMETRY_GENE_BITS == 12288
_SYMMETRY_SHIFT_NUMBER == 12
_SYMMETRY_STRAIGHT_VALUE == 0
_SYMMETRY_SAME_HANDED_VALUE == 1
_SYMMETRY_OPPOSITE_HANDED_VALUE == 2
_BRANCH_COUNT_GENE_BITS == 196608
_BRANCH_COUNT_SHIFT_NUMBER == 16
_SEGMENT_TERMINATION_GENE_BITS == 196608
_SEGMENT_TERMINATED == 0
_SEGMENT_TERMINATION_PREVENT == 65536
_SHAPE_GENE_BITS == 786432
_SHAPE_SHIFT_NUMBER == 18
_SHAPE__LINE_VALUE == 0
_SHAPE_DOT_VALUE == 1
_SHAPE_CIRCLE_VALUE == 2
_SHAPE_FILLED_CIRCLE_VALUE == 3
_LINE_WIDTH_GENE_BITS == 3145728
_LINE_WIDTH_SHIFT_NUMBER == 20
_LINE_COLOR_GENE_BITS == 117440512
_LINE_COLOR_SHIFT_NUMBER == 24
_FILL_COLOR_GENE_BITS == 1879048192
_FILL_COLOR_SHIFT_NUMBER == 28
_SEGMENT_COLORS ==
    <<"brown", "red", "orange", "yellow", "green", "blue", "purple", "white">>
_MAX_COLORS == 8

\* (chromosomeValue & mask) as an integer; every mask has bit 31 clear.
Masked(chromosomeValue, mask) == IntOf(And32(chromosomeValue, WordOf(mask)))

\* Faulty variant of TerminatedOf: the shape bits are tested instead of the
\* termination bits.
TerminatedOfShapeBits(chromosomeValue) ==
    Masked(chromosomeValue, _SHAPE_GENE_BITS) = _SEGMENT_TERMINATED

\* Lines 149-152: whether the value codes for a terminated segment.
TerminatedOf(chromosomeValue) ==
    Masked(chromosomeValue, _SEGMENT_TERMINATION_GENE_BITS) = _SEGMENT_TERMINATED

\* Line 154.  In Python + binds tighter than >>: (1 + masked) >> shift.
LineWidthOf(chromosomeValue) ==
    ShiftRight(1 + Masked(chromosomeValue, _LINE_WIDTH_GENE_BITS),
               _LINE_WIDTH_SHIFT_NUMBER)

\* Lines 160-162.
FillColorOf(chromosomeValue) ==
    _SEGMENT_COLORS[
        (ShiftRight(Masked(chromosomeValue, _FILL_COLOR_GENE_BITS),
                    _FILL_COLOR_SHIFT_NUMBER) % _MAX_COLORS) + 1]

\* Faulty variant of LineColorOf: the offset is read with the shift of the
\* fill color.
LineColorOfFillShift(chromosomeValue) ==
    _SEGMENT_COLORS[
        (ShiftRight(Masked(chromosomeValue, _LINE_COLOR_GENE_BITS),
                    _FILL_COLOR_SHIFT_NUMBER) % _MAX_COLORS) + 1]

\* Lines 156-158.
LineColorOf(chromosomeValue) ==
    _SEGMENT_COLORS[
        (ShiftRight(Masked(chromosomeValue, _LINE_COLOR_GENE_BITS),
                    _LINE_COLOR_SHIFT_NUMBER) % _MAX_COLORS) + 1]

(***************************************************************************)
(* Chromosome._interpretChromosomeValue: self, holding _index and          *)
(* chromosomeValue, gets its decoded attributes.  In Python + binds        *)
(* tighter than >>, so the line width is (1 + masked) >> shift.            *)
(***************************************************************************)
InterpretChromosomeValue(self) ==
    [_index |-> self._index,
     chromosomeValue |-> self.chromosomeValue,
     branchAngle |->
         ShiftRight(Masked(self.chromosomeValue, _BRANCH_ANGLE_GENE_BITS),
                    _BRANCH_ANGLE_SHIFT_NUMBER),
     length |->
         ShiftRight(Masked(self.chromosomeValue, _LENGTH_GENE_BITS),
                    _LENGTH_SHIFT_NUMBER),
     symmetryBits |->
         ShiftRight(Masked(self.chromosomeValue, _SYMMETRY_GENE_BITS),
                    _SYMMETRY_SHIFT_NUMBER),
     branchCount |->
         ShiftRight(Masked(self.chromosomeValue, _BRANCH_COUNT_GENE_BITS),
                    _BRANCH_COUNT_SHIFT_NUMBER),
     terminated |-> TerminatedOf(self.chromosomeValue),
     lineWidth |-> LineWidthOf(self.chromosomeValue),
     lineColor |-> LineColorOf(self.chromosomeValue),
     fillColor |-> FillColorOf(self.chromosomeValue),
     shape |->
         ShiftRight(Masked(self.chromosomeValue, _SHAPE_GENE_BITS),
                    _SHAPE_SHIFT_NUMBER)]

\* Faulty variant of Chromosome: the random value is used as it is drawn.
ChromosomeAsDrawn(index, chromosomeValue, randomValue) ==
    InterpretChromosomeValue(
        [_index |-> index,
         chromosomeValue |->
             IF chromosomeValue = None THEN randomValue ELSE chromosomeValue])

(***************************************************************************)
(* Chromosome.__init__.  randomValue is what random.randint(0, 0xFFFFFFFF) *)
(* returns; it is read only when no chromosomeValue is given.              *)
(***************************************************************************)
Chromosome(index, chromosomeValue, randomValue) ==
    InterpretChromosomeValue(
        [_index |-> index,
         chromosomeValue |->
             IF chromosomeValue = None
             THEN Or32(randomValue, WordOf(_SEGMENT_TERMINATION_PREVENT))
             ELSE chromosomeValue])

(***************************************************************************)
(* The turtle (the drawing cursor).  x and y are in thousandths of a       *)
(* pixel.  calls counts the drawing calls issued to it (pendown, dot,      *)
(* circle, begin_fill, end_fill); canvas lists what it rendered.           *)
(***************************************************************************)
SinTable ==
    <<0, 17, 35, 52, 70, 87, 105, 122, 139, 156, 174, 191, 208, 225, 242,
      259, 276, 292, 309, 326, 342, 358, 375, 391, 407, 423, 438, 454, 469,
      485, 500, 515, 530, 545, 559, 574, 588, 602, 616, 629, 643, 656, 669,
      682, 695, 707, 719, 731, 743, 755, 766, 777, 788, 799, 809, 819, 829,
      839, 848, 857, 866, 875, 883, 891, 899, 906, 914, 921, 927, 934, 940,
      946, 951, 956, 961, 966, 970, 974, 978, 982, 985, 988, 990, 993, 995,
      996, 998, 999, 999, 1000, 1000>>

\* 1000 * sin(degrees), degrees in 0..359
Sin1000(degrees) ==
    IF degrees <= 90 THEN SinTable[degrees + 1]
    ELSE IF degrees <= 180 THEN SinTable[180 - degrees + 1]
    ELSE IF degrees <= 270 THEN 0 - SinTable[degrees - 180 + 1]
    ELSE 0 - SinTable[360 - degrees + 1]

\* 1000 * cos(degrees), degrees in 0..359
Cos1000(degrees) == Sin1000((degrees + 90) % 360)

\* Pixels to thousandths of a pixel.
Fixed(pixels) == 1000 * pixels

Mark(kind, fromX, fromY, toX, toY, size, color) ==
    [kind |-> kind, fromX |-> fromX, fromY |-> fromY, toX |-> toX, toY |-> toY,
     size |-> size, color |-> color]

penup(p) == [p EXCEPT !.down = FALSE]

pendown(p) == [p EXCEPT !.down = TRUE, !.calls = @ + 1]

\* Moving with the pen down draws a line.
MoveTo(p, x, y) ==
    [p EXCEPT !.x = x, !.y = y,
              !.canvas = IF p.down
                         THEN Append(@, Mark("line", p.x, p.y, x, y, p.width, p.pencolor))
                         ELSE @]

setposition(p, x, y) == MoveTo(p, x, y)

setheading(p, heading) == [p EXCEPT !.heading = heading % 360]

forward(p, distance) ==
    MoveTo(p, p.x + distance * Cos1000(p.heading), p.y + distance * Sin1000(p.heading))

right(p, angle) == [p EXCEPT !.heading = (@ + 360 - angle) % 360]

left(p, angle) == [p EXCEPT !.heading = (@ + angle) % 360]

pencolor(p, color) == [p EXCEPT !.pencolor = color]

fillcolor(p, color) == [p EXCEPT !.fillcolor = color]

width(p, w) == [p EXCEPT !.width = w]

\* A dot is drawn whatever the pen state.
dot(p, size, color) ==
    [p EXCEPT !.calls = @ + 1,
              !.canvas = Append(@, Mark("dot", p.x, p.y, p.x, p.y, size, color))]

\* A full circle ends where it began, with the heading it began with.
circle(p, radius) ==
    [p EXCEPT !.calls = @ + 1,
              !.canvas = IF p.down
                         THEN Append(@, Mark(IF p.filling THEN "disc" ELSE "circle",
                                             p.x, p.y, p.x, p.y, radius,
                                             IF p.filling THEN p.fillcolor ELSE p.pencolor))
                         ELSE @]

begin_fill(p) == [p EXCEPT !.calls = @ + 1, !.filling = TRUE]

end_fill(p) == [p EXCEPT !.calls = @ + 1, !.filling = FALSE]

(***************************************************************************)
(* PenPosition.  There is one pen, so the pen attribute is left out.       *)
(***************************************************************************)
\* PenPosition.__init__, which calls savePosition
PenPosition(p, chiralityRight) ==
    [xPosition |-> p.x, yPosition |-> p.y, heading |-> p.heading,
     chiralityRight |-> chiralityRight]

savePosition(penPosition, p) ==
    [penPosition EXCEPT !.xPosition = p.x, !.yPosition = p.y, !.heading = p.heading]

\* Faulty variant of restore: the pen is not lifted before it is moved.
restoreNoPenup(penPosition, p) ==
    setheading(setposition(p, penPosition.xPosition, penPosition.yPosition),
               penPosition.heading)

restore(penPosition, p) ==
    setheading(setposition(penup(p), penPosition.xPosition, penPosition.yPosition),
               penPosition.heading)

flipChirality(penPosition) ==
    [penPosition EXCEPT !.chiralityRight = ~penPosition.chiralityRight]

clone(penPosition) ==
    [xPosition |-> penPosition.xPosition, yPosition |-> penPosition.yPosition,
     heading |-> penPosition.heading, chiralityRight |-> penPosition.chiralityRight]

(***************************************************************************)
(* Chromosome.childSegmentPositions.  Each operator returns the list of    *)
(* new PenPositions and the pen as the code leaves it.                     *)
(***************************************************************************)
\* Faulty variant of StraightBranches: the pen advances before the position
\* is recorded.
RECURSIVE StraightBranchesAdvanceFirst(_, _, _, _, _)
StraightBranchesAdvanceFirst(chromosome, startingchiralityRight, p, n, made) ==
    IF n = 0 THEN [positions |-> made, pen |-> p]
    ELSE StraightBranchesAdvanceFirst(
             chromosome, startingchiralityRight,
             forward(p, chromosome.length), n - 1,
             Append(made, PenPosition(forward(p, chromosome.length),
                                      startingchiralityRight)))

\* The loop of the straight case, with n passes left, the pen being p and
\* the list built so far being made.
RECURSIVE StraightBranches(_, _, _, _, _)
StraightBranches(chromosome, startingchiralityRight, p, n, made) ==
    IF n = 0 THEN [positions |-> made, pen |-> p]
    ELSE StraightBranches(chromosome, startingchiralityRight,
                          forward(p, chromosome.length), n - 1,
                          Append(made, PenPosition(p, startingchiralityRight)))

\* The pen turned by the branch angle, to the side the chirality tells.
Turned(chromosome, startingchiralityRight, p) ==
    IF startingchiralityRight
    THEN right(p, chromosome.branchAngle)
    ELSE left(p, chromosome.branchAngle)

\* Faulty variant of HandedBranches: every branch turns from the parent
\* heading, the turns do not accumulate.
RECURSIVE HandedBranchesFromParent(_, _, _, _, _)
HandedBranchesFromParent(chromosome, startingchiralityRight, p, n, made) ==
    IF n = 0 THEN [positions |-> made, pen |-> p]
    ELSE HandedBranchesFromParent(
             chromosome, startingchiralityRight, p, n - 1,
             Append(made,
                    PenPosition(Turned(chromosome, startingchiralityRight, p),
                                startingchiralityRight)))

\* The loop of a handed pass, with n passes left, the pen being p and the
\* list built so far being made.
RECURSIVE HandedBranches(_, _, _, _, _)
HandedBranches(chromosome, startingchiralityRight, p, n, made) ==
    IF n = 0 THEN [positions |-> made, pen |-> p]
    ELSE HandedBranches(chromosome, startingchiralityRight,
                        Turned(chromosome, startingchiralityRight, p), n - 1,
                        Append(made,
                               PenPosition(Turned(chromosome, startingchiralityRight, p),
                                           startingchiralityRight)))

\* The same-handed pass, if the chromosome codes for it.
SameHandedPass(chromosome, priorSegmentEndingPenPosition, p) ==
    IF BitAnd(chromosome.symmetryBits, _SYMMETRY_SAME_HANDED_VALUE) # 0
    THEN HandedBranches(chromosome, priorSegmentEndingPenPosition.chiralityRight,
                        restore(priorSegmentEndingPenPosition, p),
                        chromosome.branchCount, <<>>)
    ELSE [positions |-> <<>>, pen |-> p]

\* Faulty variant of OppositeHandedPass: the list is started anew, the
\* same-handed positions are lost.
OppositeHandedPassAlone(chromosome, priorSegmentEndingPenPosition, same) ==
    IF BitAnd(chromosome.symmetryBits, _SYMMETRY_OPPOSITE_HANDED_VALUE) # 0
    THEN HandedBranches(chromosome, ~priorSegmentEndingPenPosition.chiralityRight,
                        restore(priorSegmentEndingPenPosition, same.pen),
                        chromosome.branchCount, <<>>)
    ELSE same

\* The opposite-handed pass, if the chromosome codes for it, after the
\* same-handed pass left the list and the pen of same.
OppositeHandedPass(chromosome, priorSegmentEndingPenPosition, same) ==
    IF BitAnd(chromosome.symmetryBits, _SYMMETRY_OPPOSITE_HANDED_VALUE) # 0
    THEN HandedBranches(chromosome, ~priorSegmentEndingPenPosition.chiralityRight,
                        restore(priorSegmentEndingPenPosition, same.pen),
                        chromosome.branchCount, same.positions)
    ELSE same

\* The body of childSegmentPositions after its first restore left the pen p.
ChildrenFromRestored(chromosome, priorSegmentEndingPenPosition, p) ==
    IF chromosome.terminated THEN [positions |-> <<>>, pen |-> p]
    ELSE IF chromosome.symmetryBits = _SYMMETRY_STRAIGHT_VALUE
    THEN StraightBranches(chromosome, priorSegmentEndingPenPosition.chiralityRight,
                          restore(priorSegmentEndingPenPosition, p),
                          chromosome.branchCount, <<>>)
    ELSE OppositeHandedPass(chromosome, priorSegmentEndingPenPosition,
                            SameHandedPass(chromosome, priorSegmentEndingPenPosition, p))

childSegmentPositions(chromosome, priorSegmentEndingPenPosition, p) ==
    ChildrenFromRestored(chromosome, priorSegmentEndingPenPosition,
                         restore(priorSegmentEndingPenPosition, p))

(***************************************************************************)
(* Chromosome.segmentOutOfBounds: the answer and the pen as it is left.    *)
(***************************************************************************)
\* Faulty variant of BoundsTest: a point on a boundary counts as in bounds.
BoundsTestStrict(chromosome, panel, moved, radius) ==
    IF \/ moved.x < Fixed(panel.interiorLeftX + radius)
       \/ moved.x > Fixed(panel.interiorRightX - radius)
       \/ moved.y < Fixed(panel.interiorBottomY + radius)
       \/ moved.y > Fixed(panel.interiorTopY - radius)
    THEN [outOfBounds |-> TRUE, pen |-> moved]
    ELSE [outOfBounds |-> FALSE,
          pen |-> IF chromosome.shape # _SHAPE__LINE_VALUE
                  THEN forward(moved, radius)
                  ELSE moved]

\* The test proper, the pen having been moved to the point to test: the
\* boundaries are trimmed inward by radius, and the pen crosses the rest of
\* a circle or dot that is in bounds.
BoundsTest(chromosome, panel, moved, radius) ==
    IF \/ moved.x <= Fixed(panel.interiorLeftX + radius)
       \/ moved.x >= Fixed(panel.interiorRightX - radius)
       \/ moved.y <= Fixed(panel.interiorBottomY + radius)
       \/ moved.y >= Fixed(panel.interiorTopY - radius)
    THEN [outOfBounds |-> TRUE, pen |-> moved]
    ELSE [outOfBounds |-> FALSE,
          pen |-> IF chromosome.shape # _SHAPE__LINE_VALUE
                  THEN forward(moved, radius)
                  ELSE moved]

\* Faulty variant of segmentOutOfBounds: an absent panel or pen position is
\* answered False.
segmentOutOfBoundsAbsentInBounds(chromosome, panel, penPosition, p) ==
    IF panel = None \/ penPosition = None
    THEN [outOfBounds |-> FALSE, pen |-> p]
    ELSE IF chromosome.shape = _SHAPE__LINE_VALUE
    THEN BoundsTest(chromosome, panel,
                    forward(restore(penPosition, p), chromosome.length), 0)
    ELSE BoundsTest(chromosome, panel,
                    forward(restore(penPosition, p), ShiftRight(chromosome.length, 1)),
                    ShiftRight(chromosome.length, 1))

segmentOutOfBounds(chromosome, panel, penPosition, p) ==
    IF panel = None \/ penPosition = None
    THEN [outOfBounds |-> TRUE, pen |-> p]
    ELSE IF chromosome.shape = _SHAPE__LINE_VALUE
    THEN BoundsTest(chromosome, panel,
                    forward(restore(penPosition, p), chromosome.length), 0)
    ELSE BoundsTest(chromosome, panel,
                    forward(restore(penPosition, p), ShiftRight(chromosome.length, 1)),
                    ShiftRight(chromosome.length, 1))

(***************************************************************************)
(* Chromosome.drawSingleSegment: the pen as it is left.                    *)
(***************************************************************************)
\* Lines 350-372: the shape of a segment that is not a line, drawn by the
\* pen prepared at the start of the segment.
DrawnShape(chromosome, prepared, radius) ==
    IF chromosome.shape = _SHAPE_DOT_VALUE
    THEN forward(penup(dot(pendown(forward(prepared, radius)),
                           chromosome.length, chromosome.lineColor)),
                 radius)
    ELSE IF chromosome.shape = _SHAPE_CIRCLE_VALUE
    THEN penup(left(circle(pendown(right(prepared, 90)), radius), 90))
    ELSE IF chromosome.shape = _SHAPE_FILLED_CIRCLE_VALUE
    THEN penup(left(end_fill(circle(begin_fill(pendown(right(prepared, 90))),
                                    radius)), 90))
    ELSE prepared

\* Faulty variant of AfterShape: the pen is not taken back to the start of
\* the segment.
AfterShapeNotRestored(penPosition, marked) == marked

\* Line 376: the pen is taken back to the start of the segment.
AfterShape(penPosition, marked) == restore(penPosition, marked)

\* Lines 333-382, the pen having been prepared (restored, colors and width set).
DrawPrepared(chromosome, penPosition, prepared) ==
    penup(forward(IF chromosome.shape = _SHAPE__LINE_VALUE
                  THEN pendown(prepared)
                  ELSE AfterShape(penPosition,
                                  DrawnShape(chromosome, prepared,
                                             ShiftRight(chromosome.length, 1))),
                  chromosome.length))

drawSingleSegment(chromosome, panel, penPosition, p) ==
    IF panel = None \/ penPosition = None THEN p
    ELSE DrawPrepared(chromosome, penPosition,
                      width(fillcolor(pencolor(restore(penPosition, p),
                                               chromosome.lineColor),
                                      chromosome.fillColor),
                            chromosome.lineWidth))


(***************************************************************************)
(* Genotype.  A genotype object is its chromosomes list: a sequence of     *)
(* heap ids.  Python's index i is position i + 1 of the sequence.          *)
(***************************************************************************)
CHROMOSOME_COUNT == 4
MUTATION_RATE_MAXIMUM == 2

\* The ids the next n objects allocated in heap h get.
NewIds(h, n) == [i \in 1..n |-> Len(h) + i]

(***************************************************************************)
(* Genotype.__init__: the heap afterwards and the object's chromosomes     *)
(* list.  randomValues are the values random.randint returns to the        *)
(* Chromosome constructors, read only when chromosomes are generated.      *)
(***************************************************************************)
Genotype(h, suppliedChromosomes, randomValues) ==
    IF suppliedChromosomes = None \/ Len(suppliedChromosomes) # CHROMOSOME_COUNT
    THEN [heap |-> h \o [i \in 1..CHROMOSOME_COUNT |->
                             Chromosome(i - 1, None, randomValues[i])],
          chromosomes |-> NewIds(h, CHROMOSOME_COUNT)]
    ELSE [heap |-> h, chromosomes |-> suppliedChromosomes]

\* Faulty variant of ApplyMutations: the bit position is taken one too high.
RECURSIVE ApplyMutationsOneHigher(_, _)
ApplyMutationsOneHigher(mutatedChromosomeValues, draws) ==
    IF draws = <<>> THEN mutatedChromosomeValues
    ELSE LET draw == Head(draws)
         IN  ApplyMutationsOneHigher(
                 [mutatedChromosomeValues EXCEPT
                      ![draw.chromosomeIndex + 1] =
                          Xor32(@, OneShiftedLeft(draw.bit + 1))],
                 Tail(draws))

\* Faulty variant of ApplyMutations: the bit is set instead of flipped.
RECURSIVE ApplyMutationsSetting(_, _)
ApplyMutationsSetting(mutatedChromosomeValues, draws) ==
    IF draws = <<>> THEN mutatedChromosomeValues
    ELSE LET draw == Head(draws)
         IN  ApplyMutationsSetting(
                 [mutatedChromosomeValues EXCEPT
                      ![draw.chromosomeIndex + 1] = Or32(@, OneShiftedLeft(draw.bit))],
                 Tail(draws))

\* The loop of mutatedCopy that flips one bit per draw, in order.
RECURSIVE ApplyMutations(_, _)
ApplyMutations(mutatedChromosomeValues, draws) ==
    IF draws = <<>> THEN mutatedChromosomeValues
    ELSE LET draw == Head(draws)
         IN  ApplyMutations(
                 [mutatedChromosomeValues EXCEPT
                      ![draw.chromosomeIndex + 1] = Xor32(@, OneShiftedLeft(draw.bit))],
                 Tail(draws))

\* Faulty variant of ReplaceMutated: the mutated value is written into the
\* chromosome object the parent holds.
RECURSIVE ReplaceMutatedInPlace(_, _, _, _)
ReplaceMutatedInPlace(h, newChromosomes, mutatedChromosomeValues, i) ==
    IF i > CHROMOSOME_COUNT THEN [heap |-> h, chromosomes |-> newChromosomes]
    ELSE ReplaceMutatedInPlace(
             [h EXCEPT ![newChromosomes[i]] =
                           Chromosome(i - 1, mutatedChromosomeValues[i], None)],
             newChromosomes, mutatedChromosomeValues, i + 1)

\* The loop of mutatedCopy that replaces the mutated chromosomes, from
\* position i on: the heap and the newChromosomes list afterwards.
RECURSIVE ReplaceMutated(_, _, _, _)
ReplaceMutated(h, newChromosomes, mutatedChromosomeValues, i) ==
    IF i > CHROMOSOME_COUNT THEN [heap |-> h, chromosomes |-> newChromosomes]
    ELSE IF h[newChromosomes[i]].chromosomeValue # mutatedChromosomeValues[i]
    THEN ReplaceMutated(
             Append(h, Chromosome(i - 1, mutatedChromosomeValues[i], None)),
             [newChromosomes EXCEPT ![i] = Len(h) + 1],
             mutatedChromosomeValues, i + 1)
    ELSE ReplaceMutated(h, newChromosomes, mutatedChromosomeValues, i + 1)

\* The end of mutatedCopy: Genotype(newChromosomes).
GenotypeOf(replaced) == Genotype(replaced.heap, replaced.chromosomes, <<>>)

(***************************************************************************)
(* Genotype.mutatedCopy of the genotype whose chromosomes list is          *)
(* selfChromosomes.  draws are the random choices: one record              *)
(* [chromosomeIndex, bit] per mutation, mutationNumber of them.            *)
(***************************************************************************)
mutatedCopy(h, selfChromosomes, draws) ==
    GenotypeOf(
        ReplaceMutated(
            h,
            [i \in 1..CHROMOSOME_COUNT |-> selfChromosomes[i]],
            ApplyMutations([i \in 1..CHROMOSOME_COUNT |->
                                h[selfChromosomes[i]].chromosomeValue], draws),
            1))

\* The random choices mutatedCopy can make, bits drawn from the set bits.
MutationDraws(bits) ==
    LET Draw == [chromosomeIndex : 0..(CHROMOSOME_COUNT - 1), bit : bits]
    IN  UNION {[1..mutationNumber -> Draw] : mutationNumber \in 1..MUTATION_RATE_MAXIMUM}


(***************************************************************************)
(* Creature.  A creature object is [genotype |-> reference]; a reference   *)
(* is [id |-> position in genotypes].                                      *)
(***************************************************************************)
Ref(n) == [id |-> n]

\* Creature.__init__ given no genotype, Genotype() having made made.
CreatureOfNew(gs, made) ==
    [heap |-> made.heap,
     genotypes |-> Append(gs, made.chromosomes),
     creature |-> [genotype |-> Ref(Len(gs) + 1)]]

\* Creature.__init__: the heap, the genotypes and the new creature object.
Creature(h, gs, genotype, randomValues) ==
    IF genotype = None
    THEN CreatureOfNew(gs, Genotype(h, None, randomValues))
    ELSE [heap |-> h, genotypes |-> gs, creature |-> [genotype |-> genotype]]

\* Creature(copy), copy being what mutatedCopy returned.
CreatureOfCopy(gs, copy) ==
    Creature(copy.heap, Append(gs, copy.chromosomes), Ref(Len(gs) + 1), <<>>)

\* Creature.mutatedChild of the creature self.
mutatedChild(h, gs, self, draws) ==
    CreatureOfCopy(gs, mutatedCopy(h, gs[self.genotype.id], draws))

(***************************************************************************)
(* Inputs of the genotype specification.                                   *)
(***************************************************************************)
\* How many mutatedChild calls a behaviour makes.
MaxCopies == 1

\* The bit positions random.randint(0, 31) is let return.
MutationBits == {0, 31}

\* What the four random.randint(0, 0xFFFFFFFF) calls of a generated genotype return.
RandomSequences ==
    {<<Word(0, 0), Word(0, 0), Word(0, 0), Word(0, 0)>>,
     <<Word(65535, 65535), Word(2, 640), Word(65534, 65535), Word(1, 4160)>>}

\* The chromosomes a caller constructs and supplies: (index, value) each.
Supplied(index, value) == [index |-> index, value |-> value]

SuppliedSequences ==
    {<<Supplied(0, Word(1, 640)), Supplied(1, Word(0, 640)), Supplied(2, Word(3, 12318))>>,
     <<Supplied(0, Word(1, 640)), Supplied(1, Word(0, 640)),
       Supplied(2, Word(3, 12318)), Supplied(3, Word(65535, 65535))>>,
     <<Supplied(1, Word(1, 640)), Supplied(0, Word(32768, 1)),
       Supplied(2, Word(0, 0)), Supplied(3, Word(2, 4126))>>,
     <<Supplied(0, Word(1, 640)), Supplied(1, Word(0, 640)), Supplied(2, Word(3, 12318)),
       Supplied(3, Word(65535, 65535)), Supplied(4, Word(1, 0))>>}

\* What lastCall records: the call, its arguments and random draws, the
\* genotype it made (child), and for mutatedChild the parent as it was
\* before the call: the creature, its genotype's id and chromosomes list,
\* the chromosome objects of that list, and the size of the heap.
NoCall ==
    [op |-> "none", supplied |-> <<>>, randomValues |-> <<>>, draws |-> <<>>,
     child |-> 0, self |-> 0, parent |-> 0, creatureBefore |-> None,
     chromosomesBefore |-> <<>>, objectsBefore |-> <<>>, heapBefore |-> 0]

(***************************************************************************)
(* Creature(): a creature with a generated genotype.                       *)
(***************************************************************************)
newRandomCreature ==
    /\ creatures = <<>>
    /\ \E randomValues \in RandomSequences :
         \E made \in {Creature(heap, genotypes, None, randomValues)} :
             /\ heap' = made.heap
             /\ genotypes' = made.genotypes
             /\ creatures' = Append(creatures, made.creature)
             /\ lastCall' = [NoCall EXCEPT !.op = "random", !.randomValues = randomValues,
                                           !.child = made.creature.genotype.id,
                                           !.heapBefore = Len(heap)]
    /\ UNCHANGED displayVars

(***************************************************************************)
(* Creature(Genotype(chromosomes)): the caller constructs the chromosomes, *)
(* then the genotype from their list, then the creature.                   *)
(***************************************************************************)
newSuppliedCreature ==
    /\ creatures = <<>>
    /\ \E supplied \in SuppliedSequences, randomValues \in RandomSequences :
         \E built \in {heap \o [i \in 1..Len(supplied) |->
                                     Chromosome(supplied[i].index, supplied[i].value, None)]},
            list \in {NewIds(heap, Len(supplied))} :
           \E genotype \in {Genotype(built, list, randomValues)} :
           \E made \in {Creature(genotype.heap, Append(genotypes, genotype.chromosomes),
                                 Ref(Len(genotypes) + 1), <<>>)} :
             /\ heap' = made.heap
             /\ genotypes' = made.genotypes
             /\ creatures' = Append(creatures, made.creature)
             /\ lastCall' = [NoCall EXCEPT !.op = "supplied", !.supplied = list,
                                           !.randomValues = randomValues,
                                           !.child = made.creature.genotype.id,
                                           !.heapBefore = Len(built)]
    /\ UNCHANGED displayVars

(***************************************************************************)
(* creature.mutatedChild() on any creature there is.                       *)
(***************************************************************************)
callMutatedChild ==
    /\ creatures # <<>>
    /\ Len(creatures) <= MaxCopies
    /\ \E c \in DOMAIN creatures, draws \in MutationDraws(MutationBits) :
         \E made \in {mutatedChild(heap, genotypes, creatures[c], draws)} :
             /\ heap' = made.heap
             /\ genotypes' = made.genotypes
             /\ creatures' = Append(creatures, made.creature)
             /\ lastCall' =
                    [NoCall EXCEPT
                         !.op = "mutatedChild",
                         !.draws = draws,
                         !.child = made.creature.genotype.id,
                         !.self = c,
                         !.parent = creatures[c].genotype.id,
                         !.creatureBefore = creatures[c],
                         !.chromosomesBefore = genotypes[creatures[c].genotype.id],
                         !.objectsBefore =
                             [i \in 1..Len(genotypes[creatures[c].genotype.id]) |->
                                  heap[genotypes[creatures[c].genotype.id][i]]],
                         !.heapBefore = Len(heap)]
    /\ UNCHANGED displayVars


(***************************************************************************)
(* Creature.display.  The call is modelled statement by statement:         *)
(*   pc = "call"    display has not been called                            *)
(*   pc = "loop"    at the head of the generation loop                     *)
(*   pc = "segment" at the head of the loop over a generation's segments   *)
(*   pc = "draw"    in the drawing loops                                   *)
(*   pc = "done"    display has returned                                   *)
(***************************************************************************)
_MAX_CHROMOSOME_SEGMENTS == 32

\* creaturePanel.startingPenPosition(): the pen is put at the panel's starting
\* point and heading, and a right-handed PenPosition is taken there.
startingPenPosition(panel, p) ==
    LET placed == [p EXCEPT !.x = Fixed(panel.startX), !.y = Fixed(panel.startY),
                            !.heading = panel.startHeading]
    IN  [penPosition |-> PenPosition(placed, TRUE), pen |-> placed]

\* Faulty variant of GenerationCheck: the budget test written >= instead of >.
GenerationCheckAtLeast(number, count) ==
    IF count >= _MAX_CHROMOSOME_SEGMENTS THEN "tooMany"
    ELSE IF count = 0 THEN (IF number = 0 THEN "dead" ELSE "break")
    ELSE "grow"

\* Faulty variant of GenerationCheck: a generation is grown however many
\* pen positions it holds.
GenerationCheckNoBudget(number, count) ==
    IF count = 0 THEN (IF number = 0 THEN "dead" ELSE "break")
    ELSE "grow"

\* Faulty variant of GenerationCheck: an empty generation fails the creature
\* whatever the generation is.
GenerationCheckAlwaysDead(number, count) ==
    IF count > _MAX_CHROMOSOME_SEGMENTS THEN "tooMany"
    ELSE IF count = 0 THEN "dead"
    ELSE "grow"

\* Faulty variant of GenerationCheck: an empty generation 0 ends the growth
\* like any other empty generation.
GenerationCheckNeverDead(number, count) ==
    IF count > _MAX_CHROMOSOME_SEGMENTS THEN "tooMany"
    ELSE IF count = 0 THEN "break"
    ELSE "grow"

\* What the head of the generation loop decides for generation chromosomeNumber
\* holding count pen positions.
GenerationCheck(number, count) ==
    IF count > _MAX_CHROMOSOME_SEGMENTS THEN "tooMany"
    ELSE IF count = 0 THEN (IF number = 0 THEN "dead" ELSE "break")
    ELSE "grow"

\* Line 544: nextChromosomePenPositions.extend(children)
ExtendNext(positions, number, children) ==
    [failed |-> FALSE, pen |-> children.pen,
     positions |-> [positions EXCEPT ![number + 2] = @ \o children.positions]]

\* Lines 531-544: the segment is in bounds and test.pen is at its end; the
\* next chromosome's pen positions grown from there are added to its list.
GrowFromEnd(chroms, positions, number, segmentEndPenPosition, p) ==
    IF number < CHROMOSOME_COUNT - 1
    THEN ExtendNext(positions, number,
                    childSegmentPositions(chroms[number + 2], segmentEndPenPosition, p))
    ELSE [failed |-> FALSE, pen |-> p, positions |-> positions]

\* Faulty variant of AfterBoundsTest: the answer of segmentOutOfBounds is
\* ignored and growth goes on.
AfterBoundsTestIgnored(chroms, positions, number, segmentPenPosition, test) ==
    GrowFromEnd(chroms, positions, number,
                PenPosition(test.pen, segmentPenPosition.chiralityRight), test.pen)

\* Faulty variant of AfterBoundsTest: the next generation grows from the
\* start of the segment instead of its end.
AfterBoundsTestFromStart(chroms, positions, number, segmentPenPosition, test) ==
    IF test.outOfBounds
    THEN [failed |-> TRUE, pen |-> test.pen, positions |-> positions]
    ELSE GrowFromEnd(chroms, positions, number, segmentPenPosition, test.pen)

\* Faulty variant of AfterBoundsTest: the end of the segment is recorded
\* with the chirality a new pen position has by default.
AfterBoundsTestDefaultChirality(chroms, positions, number, segmentPenPosition, test) ==
    IF test.outOfBounds
    THEN [failed |-> TRUE, pen |-> test.pen, positions |-> positions]
    ELSE GrowFromEnd(chroms, positions, number, PenPosition(test.pen, TRUE), test.pen)

\* Lines 527-544, segmentOutOfBounds having answered test.
AfterBoundsTest(chroms, positions, number, segmentPenPosition, test) ==
    IF test.outOfBounds
    THEN [failed |-> TRUE, pen |-> test.pen, positions |-> positions]
    ELSE GrowFromEnd(chroms, positions, number,
                     PenPosition(test.pen, segmentPenPosition.chiralityRight), test.pen)

\* Lines 521-527: the segmentOutOfBounds call made for the segment at
\* position index of generation number: its pen position and its answer.
TestSegment(chroms, panel, positions, number, index, p) ==
    [penPosition |-> positions[number + 1][index],
     test |-> segmentOutOfBounds(chroms[number + 1], panel,
                                 positions[number + 1][index], p)]

\* Faulty variant of DrawSegment: every segment is drawn with the first
\* chromosome.
DrawSegmentFirstChromosome(chroms, panel, positions, number, index, p) ==
    [chromosome |-> chroms[1],
     penPosition |-> positions[number + 1][index],
     pen |-> drawSingleSegment(chroms[1], panel, positions[number + 1][index], p)]

\* The body of the drawing loops for the segment at position index of
\* generation number: the drawSingleSegment call made (its chromosome and
\* its pen position) and the pen afterwards.
DrawSegment(chroms, panel, positions, number, index, p) ==
    [chromosome |-> chroms[number + 1],
     penPosition |-> positions[number + 1][index],
     pen |-> drawSingleSegment(chroms[number + 1], panel,
                               positions[number + 1][index], p)]

\* The creature display is called on, and its chromosomes.
Displayed == creatures[1]

GenotypeChromosomes(creature) ==
    [i \in 1..Len(genotypes[creature.genotype.id]) |->
         heap[genotypes[creature.genotype.id][i]]]

\* Lines 499-502.
displayCall ==
    /\ pc = "call"
    /\ \E chroms \in {GenotypeChromosomes(Displayed)},
          start \in {startingPenPosition(creaturePanel, pen)} :
         \E children \in {childSegmentPositions(chroms[1], start.penPosition, start.pen)} :
           /\ chromosomes' = chroms
           /\ segmentPenPositions' =
                  [[i \in 1..CHROMOSOME_COUNT |-> <<>>] EXCEPT ![1] = children.positions]
           /\ pen' = children.pen
    /\ chromosomeNumber' = 0
    /\ segmentIndex' = 1
    /\ pc' = "loop"
    /\ UNCHANGED <<creaturePanel, result, exitLine, tested, drawn>>
    /\ UNCHANGED genotypeVars

\* Lines 505-518: the head of the generation loop.
displayGeneration ==
    /\ pc = "loop"
    /\ \E check \in {IF chromosomeNumber = CHROMOSOME_COUNT THEN "exhausted"
                       ELSE GenerationCheck(chromosomeNumber,
                                            Len(segmentPenPositions[chromosomeNumber + 1]))} :
           /\ pc' = IF check \in {"tooMany", "dead"} THEN "done"
                    ELSE IF check = "grow" THEN "segment" ELSE "draw"
           /\ result' = IF check \in {"tooMany", "dead"} THEN FALSE ELSE result
           /\ exitLine' = IF check = "tooMany" THEN 509
                          ELSE IF check = "dead" THEN 515 ELSE exitLine
           /\ chromosomeNumber' = IF check \in {"exhausted", "break"} THEN 0
                                  ELSE chromosomeNumber
    /\ segmentIndex' = 1
    /\ UNCHANGED <<creaturePanel, pen, chromosomes, segmentPenPositions, tested, drawn>>
    /\ UNCHANGED genotypeVars

\* Lines 521-544: one pass of the loop over the generation's segments.
displaySegment ==
    /\ pc = "segment"
    /\ \E call \in {TestSegment(chromosomes, creaturePanel, segmentPenPositions,
                                      chromosomeNumber, segmentIndex, pen)},
          last \in {segmentIndex = Len(segmentPenPositions[chromosomeNumber + 1])} :
         \E step \in {AfterBoundsTest(chromosomes, segmentPenPositions, chromosomeNumber,
                                      call.penPosition, call.test)} :
           /\ tested' = Append(tested,
                  [generation |-> chromosomeNumber, index |-> segmentIndex,
                   penPosition |-> call.penPosition,
                   outOfBounds |-> call.test.outOfBounds])
           /\ pen' = step.pen
           /\ segmentPenPositions' = step.positions
           /\ pc' = IF step.failed THEN "done" ELSE IF last THEN "loop" ELSE "segment"
           /\ result' = IF step.failed THEN FALSE ELSE result
           /\ exitLine' = IF step.failed THEN 529 ELSE exitLine
           /\ segmentIndex' = IF step.failed THEN segmentIndex
                              ELSE IF last THEN 1 ELSE segmentIndex + 1
           /\ chromosomeNumber' = IF ~step.failed /\ last THEN chromosomeNumber + 1
                                  ELSE chromosomeNumber
    /\ UNCHANGED <<creaturePanel, chromosomes, drawn>>
    /\ UNCHANGED genotypeVars

\* Lines 547-554: one pass of the drawing loops, or the return.
displayDraw ==
    /\ pc = "draw"
    /\ IF chromosomeNumber = CHROMOSOME_COUNT
       THEN /\ pc' = "done"
            /\ result' = TRUE
            /\ exitLine' = 554
            /\ UNCHANGED <<pen, drawn, chromosomeNumber, segmentIndex>>
       ELSE IF segmentIndex > Len(segmentPenPositions[chromosomeNumber + 1])
       THEN /\ chromosomeNumber' = chromosomeNumber + 1
            /\ segmentIndex' = 1
            /\ UNCHANGED <<pen, drawn, pc, result, exitLine>>
       ELSE /\ \E call \in {DrawSegment(chromosomes, creaturePanel, segmentPenPositions,
                                            chromosomeNumber, segmentIndex, pen)} :
                 /\ pen' = call.pen
                 /\ drawn' = Append(drawn,
                        [generation |-> chromosomeNumber, index |-> segmentIndex,
                         penPosition |-> call.penPosition,
                         chromosomeValue |-> call.chromosome.chromosomeValue])
            /\ segmentIndex' = segmentIndex + 1
            /\ UNCHANGED <<chromosomeNumber, pc, result, exitLine>>
    /\ UNCHANGED <<creaturePanel, chromosomes, segmentPenPositions, tested>>
    /\ UNCHANGED genotypeVars

(***************************************************************************)
(* Inputs of the display specification.                                    *)
(***************************************************************************)
\* Chromosome values, by what they decode to.
StraightOne == Word(1, 640)          \* straight, 1 branch, line, length 10
StraightOneToo == Word(33569, 685)   \* the same, other angle, width and colour bits
Terminated == Word(4, 640)           \* branch count 0
BilateralSix == Word(7, 12638)       \* bilateral, 3 branches, 30 degrees, dot, length 5
BilateralFour == Word(10, 12589)     \* bilateral, 2 branches, 45 degrees, circle, length 4
OppositeTwo == Word(20494, 10196)    \* opposite-handed, 2 branches, 20 degrees, disc, length 31

DisplayValues ==
    {StraightOne, StraightOneToo, Terminated, BilateralSix, BilateralFour, OppositeTwo}

Panel(leftX, bottomY, rightX, topY, startX, startY, startHeading) ==
    [interiorLeftX |-> leftX, interiorBottomY |-> bottomY, interiorRightX |-> rightX,
     interiorTopY |-> topY, startX |-> startX, startY |-> startY,
     startHeading |-> startHeading]

Panels == {Panel(-100, -100, 100, 100, 0, 0, 90), Panel(0, 0, 36, 36, 30, 18, 90)}

\* The turtle before display is called: anywhere, pen up or down.
Turtle(down) ==
    [x |-> 0, y |-> 0, heading |-> 0, down |-> down, calls |-> 0, canvas |-> <<>>,
     pencolor |-> "black", fillcolor |-> "black", width |-> 1, filling |-> FALSE]

DisplayIdle ==
    /\ chromosomes = <<>>
    /\ segmentPenPositions = <<>>
    /\ chromosomeNumber = 0
    /\ segmentIndex = 1
    /\ pc = "call"
    /\ result = "none"
    /\ exitLine = 0
    /\ tested = <<>>
    /\ drawn = <<>>

\* A creature of four supplied chromosomes, about to be displayed in a panel.
Init ==
    /\ \E values \in [1..CHROMOSOME_COUNT -> DisplayValues] :
         heap = [i \in 1..CHROMOSOME_COUNT |-> Chromosome(i - 1, values[i], None)]
    /\ genotypes = <<NewIds(<<>>, CHROMOSOME_COUNT)>>
    /\ creatures = <<[genotype |-> Ref(1)]>>
    /\ lastCall = NoCall
    /\ creaturePanel \in Panels
    /\ pen \in {Turtle(down) : down \in BOOLEAN}
    /\ DisplayIdle

Next == displayCall \/ displayGeneration \/ displaySegment \/ displayDraw

Spec == Init /\ [][Next]_vars

\* Where display is: the statement it is at and its two loop counters.
Control == <<pc, chromosomeNumber, segmentIndex>>

\* display moves on: it has not returned and is somewhere else next.  Every
\* step of Next is such a move.
Proceed ==
    /\ pc # "done"
    /\ pc' \in {"loop", "segment", "draw", "done"}
    /\ chromosomeNumber' \in {0, chromosomeNumber, chromosomeNumber + 1}
    /\ segmentIndex' \in {1, segmentIndex, segmentIndex + 1}

\* display is sequential code: once called it runs on, statement after
\* statement, until it returns.
FairSpec == Spec /\ WF_Control(Proceed)

\* No creature yet; creatures are constructed and reproduce, none is displayed.
GenotypeInit ==
    /\ heap = <<>>
    /\ genotypes = <<>>
    /\ creatures = <<>>
    /\ lastCall = NoCall
    /\ creaturePanel = None
    /\ pen = Turtle(FALSE)
    /\ DisplayIdle

GenotypeNext == newRandomCreature \/ newSuppliedCreature \/ callMutatedChild

GenotypeSpec == GenotypeInit /\ [][GenotypeNext]_vars


(***************************************************************************)
(* The operations of one Chromosome, called on their own: a chromosome is  *)
(* constructed, then childSegmentPositions, segmentOutOfBounds and         *)
(* drawSingleSegment are called on it with any panel and pen position,     *)
(* absent ones included.  lastCall records the call, the pen before it     *)
(* and what it returned.                                                   *)
(***************************************************************************)
\* How many calls a behaviour makes on the chromosome.
MaxCalls == 1

\* The chromosome value with the given gene fields; lineField and fillField
\* are four bits wide, the fourth being bit 27 and bit 31.
GeneValue(angle, length, symmetry, branches, shape, widthField, lineField, fillField) ==
    Word(branches + 4 * shape + 16 * widthField + 256 * lineField + 4096 * fillField,
         angle + 64 * length + 4096 * symmetry)

ChromosomeValues ==
    {GeneValue(0, 10, 0, 1, 0, 0, 0, 0),
     GeneValue(30, 7, 0, 3, 0, 1, 8, 8),
     GeneValue(45, 7, 1, 2, 1, 2, 3, 5),
     GeneValue(63, 8, 2, 3, 2, 3, 7, 7),
     GeneValue(20, 5, 3, 3, 3, 1, 11, 13),
     GeneValue(10, 10, 3, 0, 1, 0, 1, 2),
     GeneValue(0, 10, 3, 1, 1, 2, 4, 6),
     GeneValue(50, 0, 2, 2, 0, 3, 2, 1),
     GeneValue(5, 31, 0, 2, 2, 0, 6, 12),
     GeneValue(33, 10, 1, 1, 3, 3, 15, 15)}

\* What random.randint(0, 0xFFFFFFFF) returns to a constructor given no value.
ChromosomeRandomValues == {Word(0, 0), GeneValue(63, 31, 3, 0, 3, 3, 15, 15)}

PenPositionAt(x, y, heading, chiralityRight) ==
    [xPosition |-> Fixed(x), yPosition |-> Fixed(y), heading |-> heading,
     chiralityRight |-> chiralityRight]

\* The pen positions the operations are called with.
CallPenPositions ==
    {PenPositionAt(0, 0, 90, TRUE), PenPositionAt(0, 0, 0, TRUE),
     PenPositionAt(-25, 0, 0, FALSE), PenPositionAt(3, -4, 200, FALSE)}

\* The panels the operations are called with.
CallPanels == {Panel(-20, -20, 10, 20, 0, 0, 90), Panel(-100, -100, 100, 100, 0, 0, 90)}

NoChromosomeCall ==
    [op |-> "none", panel |-> None, penPosition |-> None, penBefore |-> None,
     positions |-> <<>>, outOfBounds |-> FALSE, count |-> 0]

\* Chromosome(index, chromosomeValue) and Chromosome(index).
newChromosome ==
    /\ heap = <<>>
    /\ \E index \in {0}, chromosomeValue \in ChromosomeValues \cup {None} :
         \E randomValue \in IF chromosomeValue = None THEN ChromosomeRandomValues
                                                      ELSE {Word(0, 0)} :
             heap' = <<Chromosome(index, chromosomeValue, randomValue)>>
    /\ UNCHANGED <<genotypes, creatures, lastCall>>
    /\ UNCHANGED displayVars

\* chromosome.childSegmentPositions(priorSegmentEndingPenPosition)
callChildSegmentPositions ==
    /\ heap # <<>>
    /\ lastCall.count < MaxCalls
    /\ \E priorSegmentEndingPenPosition \in CallPenPositions :
         \E children \in {childSegmentPositions(heap[1], priorSegmentEndingPenPosition,
                                                pen)} :
             /\ pen' = children.pen
             /\ lastCall' = [NoChromosomeCall EXCEPT
                                 !.op = "childSegmentPositions",
                                 !.penPosition = priorSegmentEndingPenPosition,
                                 !.penBefore = pen,
                                 !.positions = children.positions,
                                 !.count = lastCall.count + 1]
    /\ UNCHANGED <<heap, genotypes, creatures, creaturePanel, chromosomes,
                   segmentPenPositions, chromosomeNumber, segmentIndex, pc, result,
                   exitLine, tested, drawn>>

\* chromosome.segmentOutOfBounds(creaturePanel, penPosition)
callSegmentOutOfBounds ==
    /\ heap # <<>>
    /\ lastCall.count < MaxCalls
    /\ \E panel \in CallPanels \cup {None}, penPosition \in CallPenPositions \cup {None} :
         \E test \in {segmentOutOfBounds(heap[1], panel, penPosition, pen)} :
             /\ pen' = test.pen
             /\ lastCall' = [NoChromosomeCall EXCEPT
                                 !.op = "segmentOutOfBounds",
                                 !.panel = panel,
                                 !.penPosition = penPosition,
                                 !.penBefore = pen,
                                 !.outOfBounds = test.outOfBounds,
                                 !.count = lastCall.count + 1]
    /\ UNCHANGED <<heap, genotypes, creatures, creaturePanel, chromosomes,
                   segmentPenPositions, chromosomeNumber, segmentIndex, pc, result,
                   exitLine, tested, drawn>>

\* chromosome.drawSingleSegment(creaturePanel, penPosition)
callDrawSingleSegment ==
    /\ heap # <<>>
    /\ lastCall.count < MaxCalls
    /\ \E panel \in CallPanels \cup {None}, penPosition \in CallPenPositions \cup {None} :
         /\ pen' = drawSingleSegment(heap[1], panel, penPosition, pen)
         /\ lastCall' = [NoChromosomeCall EXCEPT
                             !.op = "drawSingleSegment",
                             !.panel = panel,
                             !.penPosition = penPosition,
                             !.penBefore = pen,
                             !.count = lastCall.count + 1]
    /\ UNCHANGED <<heap, genotypes, creatures, creaturePanel, chromosomes,
                   segmentPenPositions, chromosomeNumber, segmentIndex, pc, result,
                   exitLine, tested, drawn>>

\* No chromosome yet; the pen is anywhere it was left, up or down.
ChromosomeInit ==
    /\ heap = <<>>
    /\ genotypes = <<>>
    /\ creatures = <<>>
    /\ lastCall = NoChromosomeCall
    /\ creaturePanel = None
    /\ pen \in {Turtle(down) : down \in BOOLEAN}
    /\ DisplayIdle

ChromosomeNext ==
    \/ newChromosome
    \/ callChildSegmentPositions
    \/ callSegmentOutOfBounds
    \/ callDrawSingleSegment

ChromosomeSpec == ChromosomeInit /\ [][ChromosomeNext]_vars

(***************************************************************************)
(* PenPosition objects and the references a caller holds to them.  heap is *)
(* the PenPosition objects there are, segmentPenPositions the references   *)
(* the caller holds, each the place of an object in heap.                  *)
(***************************************************************************)
MaxPenCalls == 4

\* PenPosition(pen, chiralityRight) as an object: it is added to the heap h
\* and ref is the reference to it.
NewPenPosition(h, p, chiralityRight) ==
    [heap |-> Append(h, PenPosition(p, chiralityRight)), ref |-> Len(h) + 1]

\* Faulty variant of CloneObject: the reference to the object itself is
\* returned, no object is made.
CloneObjectShared(h, ref, p) == [heap |-> h, ref |-> ref]

\* Lines 56-63: a new object is constructed of the pen and self's chirality,
\* then its saved position and heading are overwritten with self's.
CloneObject(h, ref, p) ==
    LET made == NewPenPosition(h, p, h[ref].chiralityRight)
    IN  [heap |-> [made.heap EXCEPT ![made.ref].xPosition = h[ref].xPosition,
                                    ![made.ref].yPosition = h[ref].yPosition,
                                    ![made.ref].heading = h[ref].heading],
         ref |-> made.ref]

\* What the cursor may do between calls: move, turn, put the pen down.
CursorMoves(p) == {forward(p, 10), left(p, 90), right(p, 45), pendown(p)}

\* What lastCall records: the call, the place in segmentPenPositions of the
\* reference it was made through, the pen, the heap and the references
\* before it, how many calls were made, and the call before it.
NoPenCall ==
    [op |-> "none", self |-> 0, penBefore |-> None, heapBefore |-> <<>>,
     positionsBefore |-> <<>>, count |-> 0, previous |-> None]

\* The record of a call op made through reference number self.
PenCall(op, self) ==
    [op |-> op, self |-> self, penBefore |-> pen, heapBefore |-> heap,
     positionsBefore |-> segmentPenPositions, count |-> lastCall.count + 1,
     previous |-> [op |-> lastCall.op, self |-> lastCall.self,
                   heapBefore |-> lastCall.heapBefore]]

penPositionIdle ==
    <<genotypes, creatures, creaturePanel, chromosomes, chromosomeNumber, segmentIndex,
      pc, result, exitLine, tested, drawn>>

\* PenPosition(pen, chiralityRight)
newPenPosition ==
    /\ lastCall.count < MaxPenCalls
    /\ \E chiralityRight \in BOOLEAN :
         \E made \in {NewPenPosition(heap, pen, chiralityRight)} :
             /\ heap' = made.heap
             /\ segmentPenPositions' = Append(segmentPenPositions, made.ref)
    /\ lastCall' = PenCall("new", Len(segmentPenPositions) + 1)
    /\ UNCHANGED pen
    /\ UNCHANGED penPositionIdle

\* The cursor is used for something else.
cursorMoves ==
    /\ lastCall.count < MaxPenCalls
    /\ heap # <<>>
    /\ pen' \in CursorMoves(pen)
    /\ lastCall' = PenCall("cursor", 0)
    /\ UNCHANGED <<heap, segmentPenPositions>>
    /\ UNCHANGED penPositionIdle

\* penPosition.savePosition()
callSavePosition ==
    /\ lastCall.count < MaxPenCalls
    /\ \E self \in 1..Len(segmentPenPositions) :
           /\ heap' = [heap EXCEPT ![segmentPenPositions[self]] = savePosition(@, pen)]
           /\ lastCall' = PenCall("savePosition", self)
    /\ UNCHANGED <<pen, segmentPenPositions>>
    /\ UNCHANGED penPositionIdle

\* penPosition.restore()
callRestore ==
    /\ lastCall.count < MaxPenCalls
    /\ \E self \in 1..Len(segmentPenPositions) :
           /\ pen' = restore(heap[segmentPenPositions[self]], pen)
           /\ lastCall' = PenCall("restore", self)
    /\ UNCHANGED <<heap, segmentPenPositions>>
    /\ UNCHANGED penPositionIdle

\* penPosition.flipChirality()
callFlipChirality ==
    /\ lastCall.count < MaxPenCalls
    /\ \E self \in 1..Len(segmentPenPositions) :
           /\ heap' = [heap EXCEPT ![segmentPenPositions[self]] = flipChirality(@)]
           /\ lastCall' = PenCall("flipChirality", self)
    /\ UNCHANGED <<pen, segmentPenPositions>>
    /\ UNCHANGED penPositionIdle

\* penPosition.clone(), the caller keeping the reference returned.
callClone ==
    /\ lastCall.count < MaxPenCalls
    /\ \E self \in 1..Len(segmentPenPositions) :
         \E made \in {CloneObject(heap, segmentPenPositions[self], pen)} :
           /\ heap' = made.heap
           /\ segmentPenPositions' = Append(segmentPenPositions, made.ref)
           /\ lastCall' = PenCall("clone", self)
    /\ UNCHANGED pen
    /\ UNCHANGED penPositionIdle

\* A cursor somewhere, pen up or down, and no PenPosition yet.
PenPositionInit ==
    /\ heap = <<>>
    /\ genotypes = <<>>
    /\ creatures = <<>>
    /\ lastCall = NoPenCall
    /\ creaturePanel = None
    /\ pen \in {Turtle(down) : down \in BOOLEAN}
    /\ DisplayIdle

PenPositionNext ==
    \/ newPenPosition
    \/ cursorMoves
    \/ callSavePosition
    \/ callRestore
    \/ callFlipChirality
    \/ callClone

PenPositionSpec == PenPositionInit /\ [][PenPositionNext]_vars

(***************************************************************************)
(* Properties of Creature.display, checked under Spec.                     *)
(***************************************************************************)
Generations == 0..(CHROMOSOME_COUNT - 1)

\* display has returned True, has returned False.
ReturnedTrue == pc = "done" /\ result = TRUE

ReturnedFalse == pc = "done" /\ result = FALSE

\* The pen positions display holds for generation g (empty before the call).
Pending(g) == IF segmentPenPositions = <<>> THEN <<>> ELSE segmentPenPositions[g + 1]

\* Generation g's pen position at index i was bounds-tested and found in bounds.
Passed(g, i) ==
    \E t \in 1..Len(tested) :
        /\ tested[t].generation = g
        /\ tested[t].index = i
        /\ tested[t].penPosition = Pending(g)[i]
        /\ ~tested[t].outOfBounds

\* Nothing was drawn: no drawing call reached the turtle, it rendered
\* nothing, and drawSingleSegment was not called.
NothingDrawn == pen.calls = 0 /\ pen.canvas = <<>> /\ drawn = <<>>

\* C1: display issues no drawing operation before every pending pen
\* position of every generation has passed the bounds test; so whenever
\* display returns False, nothing was drawn during the call.
C1_ValidationBeforeDrawing ==
    /\ ~NothingDrawn =>
           /\ pc \in {"draw", "done"}
           /\ ~ReturnedFalse
           /\ \A g \in Generations : \A i \in 1..Len(Pending(g)) : Passed(g, i)
    /\ ReturnedFalse => NothingDrawn

\* Display returned False at a segment out of bounds, after other segments passed.
C1_Witness ==
    /\ pc = "done"
    /\ ReturnedFalse
    /\ exitLine = 529
    /\ Len(tested) > 2
    /\ NothingDrawn

\* How many pen positions childSegmentPositions of chromosome makes.
ChildCount(chromosome) ==
    Len(childSegmentPositions(chromosome, PenPosition(pen, TRUE), pen).positions)

\* C2: when segmentOutOfBounds answers True for a pending pen position,
\* display returns False at once: that test is the last one made, and the
\* next generation's list holds only the children of the segments tested
\* before it.
C2_FailureReturnsAtOnce ==
    \A t \in 1..Len(tested) :
        tested[t].outOfBounds =>
            /\ t = Len(tested)
            /\ pc = "done"
            /\ ReturnedFalse
            /\ \A g \in Generations :
                   g > tested[t].generation =>
                       Len(Pending(g)) =
                           IF g = tested[t].generation + 1
                           THEN (tested[t].index - 1) * ChildCount(chromosomes[g + 1])
                           ELSE 0

\* Display failed at a segment that was not the last of its generation, after
\* earlier segments of the generation had grown children.
C2_Witness ==
    /\ tested # <<>>
    /\ tested[Len(tested)].outOfBounds
    /\ tested[Len(tested)].index > 1
    /\ tested[Len(tested)].index < Len(Pending(tested[Len(tested)].generation))
    /\ tested[Len(tested)].generation < CHROMOSOME_COUNT - 1
    /\ Pending(tested[Len(tested)].generation + 1) # <<>>

\* C3: display never returns True when a generation accumulated more than
\* 32 pen positions, and it never gives up for that reason at 32 or fewer.
C3_SegmentBudget ==
    /\ ReturnedTrue =>
           \A g \in Generations : Len(Pending(g)) <= _MAX_CHROMOSOME_SEGMENTS
    /\ (pc = "done" /\ \E g \in Generations : Len(Pending(g)) > _MAX_CHROMOSOME_SEGMENTS)
           => ReturnedFalse
    /\ exitLine = 509 => Len(Pending(chromosomeNumber)) > _MAX_CHROMOSOME_SEGMENTS

\* Display gave up at a generation of more than 32 pen positions, all the
\* segments before it being in bounds.
C3_Witness ==
    /\ pc = "done"
    /\ ReturnedFalse
    /\ exitLine = 509
    /\ Len(Pending(chromosomeNumber)) > _MAX_CHROMOSOME_SEGMENTS
    /\ \A t \in 1..Len(tested) : ~tested[t].outOfBounds

\* Display succeeded with a generation of exactly 32 pen positions.
C3_ExactlyAtBudget ==
    /\ ReturnedTrue
    /\ \E g \in Generations : Len(Pending(g)) = _MAX_CHROMOSOME_SEGMENTS

\* The calls logged for generations below g, were each pen position of them
\* handled once, in generation-major order.
RECURSIVE CallsBelow(_)
CallsBelow(g) ==
    IF g = 0 THEN <<>>
    ELSE CallsBelow(g - 1) \o
         [i \in 1..Len(Pending(g - 1)) |->
              [generation |-> g - 1, index |-> i, penPosition |-> Pending(g - 1)[i]]]

\* The call that log entry e records.
CallOf(e) == [generation |-> e.generation, index |-> e.index, penPosition |-> e.penPosition]

\* Generation g validated: it has pen positions if it is generation 0, no
\* more of them than the budget, and all of them passed the bounds test.
Validated(g) ==
    /\ g = 0 => Pending(0) # <<>>
    /\ Len(Pending(g)) <= _MAX_CHROMOSOME_SEGMENTS
    /\ \A i \in 1..Len(Pending(g)) : Passed(g, i)

\* C4: if generations 0..g-1 all validate and generation g (1 <= g <= 3)
\* has no pending pen position, display returns True having drawn exactly
\* the pen positions of generations 0..g-1; nothing of generation g or
\* later is bounds-tested or drawn.
C4_EarlyTermination ==
    \A g \in 1..(CHROMOSOME_COUNT - 1) :
        (/\ pc = "done"
         /\ \A k \in 0..(g - 1) : Validated(k)
         /\ Pending(g) = <<>>)
        => /\ ReturnedTrue
           /\ [i \in 1..Len(drawn) |-> CallOf(drawn[i])] = CallsBelow(g)
           /\ \A t \in 1..Len(tested) : tested[t].generation < g
           /\ Len(pen.canvas) >= Len(drawn)

\* Display returned True at a generation 2 without pen positions, having
\* drawn generations 0 and 1.
C4_Witness ==
    /\ pc = "done"
    /\ ReturnedTrue
    /\ Pending(1) # <<>>
    /\ Pending(2) = <<>>
    /\ ~chromosomes[4].terminated
    /\ Len(drawn) = Len(Pending(0)) + Len(Pending(1))

\* C5: if the generation-0 chromosome makes no child position from the
\* starting pen position, display returns False whatever the other three
\* chromosomes are, and nothing is drawn.
C5_DeadAtGenerationZero ==
    (/\ pc = "done"
     /\ childSegmentPositions(chromosomes[1],
                              startingPenPosition(creaturePanel, pen).penPosition,
                              pen).positions = <<>>)
    => /\ ReturnedFalse
       /\ NothingDrawn
       /\ tested = <<>>

\* Display returned for a creature whose first chromosome is terminated and
\* whose other chromosomes are not.
C5_Witness ==
    /\ pc = "done"
    /\ chromosomes[1].terminated
    /\ \A i \in 2..CHROMOSOME_COUNT : ~chromosomes[i].terminated
    /\ ReturnedFalse

\* C6: when display returns True, every pen position that was bounds-tested
\* is drawn exactly once, with the chromosome of its own generation and as
\* it was when it passed the test; the draws go generation by generation;
\* and nothing is drawn that did not pass the test.
C6_DrawsWhatWasValidated ==
    ReturnedTrue =>
        /\ Len(drawn) = Len(tested)
        /\ \A i \in 1..Len(drawn) :
               /\ CallOf(drawn[i]) = CallOf(tested[i])
               /\ ~tested[i].outOfBounds
               /\ drawn[i].chromosomeValue
                      = chromosomes[drawn[i].generation + 1].chromosomeValue
        /\ \A i, j \in 1..Len(drawn) :
               /\ i < j => drawn[i].generation <= drawn[j].generation
               /\ i # j => <<drawn[i].generation, drawn[i].index>>
                               # <<drawn[j].generation, drawn[j].index>>

\* Display returned True for a creature that branches twice, so that
\* generation order and tree order differ.
C6_Witness ==
    /\ ReturnedTrue
    /\ Len(Pending(0)) >= 2
    /\ Len(Pending(1)) >= 2 * Len(Pending(0))
    /\ Len(Pending(2)) >= Len(Pending(1))
    /\ chromosomes[1].chromosomeValue # chromosomes[2].chromosomeValue
    /\ Len(drawn) = Len(Pending(0)) + Len(Pending(1)) + Len(Pending(2)) + Len(Pending(3))

\* The point d pixels from the panel's starting point along its starting heading.
AlongStart(d) ==
    [x |-> Fixed(creaturePanel.startX) + d * Cos1000(creaturePanel.startHeading),
     y |-> Fixed(creaturePanel.startY) + d * Sin1000(creaturePanel.startHeading)]

\* The point lies strictly inside the panel.
Inside(point) ==
    /\ point.x > Fixed(creaturePanel.interiorLeftX)
    /\ point.x < Fixed(creaturePanel.interiorRightX)
    /\ point.y > Fixed(creaturePanel.interiorBottomY)
    /\ point.y < Fixed(creaturePanel.interiorTopY)

\* The genotype of the end-to-end scenario, in a panel that holds its line.
StraightLineScenario ==
    /\ pc = "done"
    /\ \A i \in 1..CHROMOSOME_COUNT :
           /\ ~chromosomes[i].terminated
           /\ chromosomes[i].branchCount = 1
           /\ chromosomes[i].symmetryBits = _SYMMETRY_STRAIGHT_VALUE
           /\ chromosomes[i].shape = _SHAPE__LINE_VALUE
           /\ chromosomes[i].length = 10
    /\ \A k \in 1..CHROMOSOME_COUNT : Inside(AlongStart(10 * k))

\* C7: four chromosomes, each not terminated, with one branch, straight
\* symmetry, line shape and length 10, in a panel that holds the result:
\* display returns True and draws exactly 4 segments, one per generation,
\* that of generation g starting 10*g from the starting point along the
\* starting heading; together one straight line of length 40.
C7_StraightLine ==
    StraightLineScenario =>
        /\ ReturnedTrue
        /\ Len(drawn) = CHROMOSOME_COUNT
        /\ Len(pen.canvas) = CHROMOSOME_COUNT
        /\ \A g \in Generations :
               /\ drawn[g + 1].generation = g
               /\ drawn[g + 1].penPosition.xPosition = AlongStart(10 * g).x
               /\ drawn[g + 1].penPosition.yPosition = AlongStart(10 * g).y
               /\ drawn[g + 1].penPosition.heading = creaturePanel.startHeading
               /\ pen.canvas[g + 1].kind = "line"
               /\ pen.canvas[g + 1].fromX = AlongStart(10 * g).x
               /\ pen.canvas[g + 1].fromY = AlongStart(10 * g).y
               /\ pen.canvas[g + 1].toX = AlongStart(10 * (g + 1)).x
               /\ pen.canvas[g + 1].toY = AlongStart(10 * (g + 1)).y

\* The scenario was displayed, with chromosomes that differ in other bits.
C7_Witness ==
    /\ StraightLineScenario
    /\ ReturnedTrue
    /\ chromosomes[1].chromosomeValue # chromosomes[2].chromosomeValue


(***************************************************************************)
(* Properties of Genotype and of Creature.mutatedChild, checked under      *)
(* GenotypeSpec.                                                           *)
(***************************************************************************)
\* The chromosome object at position i of genotype g.
ChromosomeAt(g, i) == heap[genotypes[g][i]]

\* The positions at which the child made by the last mutatedChild call
\* differs in raw value from the parent as it was before the call.
ChangedPositions ==
    {i \in 1..CHROMOSOME_COUNT :
         ChromosomeAt(lastCall.child, i).chromosomeValue
             # lastCall.objectsBefore[i].chromosomeValue}

\* The last call made two flips and both hit the same bit of the same chromosome.
FlipsCancel ==
    /\ Len(lastCall.draws) = 2
    /\ lastCall.draws[1] = lastCall.draws[2]

\* C8 as stated: mutatedCopy changes the raw value of 1 or 2 chromosomes,
\* whatever the parent and the random choices.
C8_OneOrTwoChanged ==
    lastCall.op = "mutatedChild" => Cardinality(ChangedPositions) \in {1, 2}

\* C8 amended: mutatedCopy changes the raw value of at most 2 chromosomes,
\* and of at least 1 unless it makes two flips of the same bit of the same
\* chromosome, which cancel and leave every raw value as the parent's.
C8_AtMostTwoChanged ==
    lastCall.op = "mutatedChild" =>
        /\ Cardinality(ChangedPositions) <= MUTATION_RATE_MAXIMUM
        /\ Cardinality(ChangedPositions) = 0 <=> FlipsCancel
        /\ \A i \in ChangedPositions :
               \E d \in 1..Len(lastCall.draws) :
                   lastCall.draws[d].chromosomeIndex = i - 1

\* mutatedChild made two flips that cancelled: the child has the parent's values.
C8_Witness ==
    /\ lastCall.op = "mutatedChild"
    /\ FlipsCancel
    /\ ChangedPositions = {}

\* C9: mutatedCopy (and mutatedChild) leaves the parent unchanged: its
\* creature, its chromosomes list and every chromosome object of the list
\* (raw value and decoded fields) are as before the call.  In the child, the
\* chromosome at index i is the parent's own object when the final raw
\* value at i equals the parent's, and otherwise a newly constructed
\* Chromosome of index i and the mutated value.
C9_ParentUnchangedChildShares ==
    lastCall.op = "mutatedChild" =>
        /\ creatures[lastCall.self] = lastCall.creatureBefore
        /\ genotypes[lastCall.parent] = lastCall.chromosomesBefore
        /\ \A i \in 1..CHROMOSOME_COUNT :
               ChromosomeAt(lastCall.parent, i) = lastCall.objectsBefore[i]
        /\ lastCall.child # lastCall.parent
        /\ \A i \in 1..CHROMOSOME_COUNT :
               IF i \in ChangedPositions
               THEN /\ genotypes[lastCall.child][i] > lastCall.heapBefore
                    /\ ChromosomeAt(lastCall.child, i) =
                           Chromosome(i - 1,
                                      ApplyMutations(
                                          [k \in 1..CHROMOSOME_COUNT |->
                                               lastCall.objectsBefore[k].chromosomeValue],
                                          lastCall.draws)[i],
                                      None)
               ELSE genotypes[lastCall.child][i] = lastCall.chromosomesBefore[i]

\* mutatedChild made a child that shares some chromosomes with its parent
\* and has new ones at two positions.
C9_Witness ==
    /\ lastCall.op = "mutatedChild"
    /\ Cardinality(ChangedPositions) = 2
    /\ \E i \in 1..CHROMOSOME_COUNT :
           genotypes[lastCall.child][i] = genotypes[lastCall.parent][i]
    /\ \E i \in 1..CHROMOSOME_COUNT :
           genotypes[lastCall.child][i] > lastCall.heapBefore

\* C10: every genotype, however it was built, holds exactly 4 chromosomes
\* and its chromosome at position i reports index i; a supplied sequence
\* whose length is not 4 is replaced by 4 newly generated random chromosomes.
C10_FourIndexedChromosomes ==
    /\ \A g \in DOMAIN genotypes :
           /\ Len(genotypes[g]) = CHROMOSOME_COUNT
           /\ \A i \in 1..CHROMOSOME_COUNT : ChromosomeAt(g, i)._index = i - 1
    /\ (lastCall.op = "supplied" /\ Len(lastCall.supplied) # CHROMOSOME_COUNT) =>
           \A i \in 1..CHROMOSOME_COUNT :
               /\ genotypes[lastCall.child][i] = lastCall.heapBefore + i
               /\ ChromosomeAt(lastCall.child, i) =
                      Chromosome(i - 1, None, lastCall.randomValues[i])


(***************************************************************************)
(* Properties of the operations of Chromosome, checked under               *)
(* ChromosomeSpec.                                                         *)
(***************************************************************************)
\* The chromosome constructed.
Constructed == heap[1]

\* The k lowest bits of the value's upper half from bit `from` of the value
\* on (from >= 16), read by division instead of mask and shift.
UpperField(chromosomeValue, from, bits) ==
    (chromosomeValue.hi \div (2 ^ (from - 16))) % (2 ^ bits)

\* C11: for every value, the decoded chromosome is terminated if and only
\* if its 2-bit branch-count field (bits 16-17) is 0, that is
\* terminated <=> branchCount = 0, and branchCount is in 0..3.
C11_TerminatedIffNoBranch ==
    heap # <<>> =>
        /\ Constructed.branchCount = UpperField(Constructed.chromosomeValue, 16, 2)
        /\ Constructed.branchCount \in 0..3
        /\ Constructed.terminated <=> (Constructed.branchCount = 0)

\* A terminated chromosome was constructed whose shape field is not 0.
C11_Witness ==
    /\ heap # <<>>
    /\ Constructed.terminated
    /\ Constructed.branchCount = 0
    /\ Constructed.shape # 0

\* C12: for every value, the decoded lineWidth is 1 plus the 2-bit field at
\* bits 20-21, so it is in 1..4.
C12_LineWidthOneToFour ==
    heap # <<>> =>
        /\ Constructed.lineWidth = 1 + UpperField(Constructed.chromosomeValue, 20, 2)
        /\ Constructed.lineWidth \in 1..4

\* C13: for every value, lineColor is the entry of the 8-entry color table
\* that bits 24-26 select and fillColor the entry bits 28-30 select; the
\* value with bit 27 flipped decodes to the same lineColor, the value with
\* bit 31 flipped to the same fillColor.
C13_ColorsWrap ==
    heap # <<>> =>
        /\ Len(_SEGMENT_COLORS) = 8
        /\ Constructed.lineColor =
               _SEGMENT_COLORS[UpperField(Constructed.chromosomeValue, 24, 3) + 1]
        /\ Constructed.fillColor =
               _SEGMENT_COLORS[UpperField(Constructed.chromosomeValue, 28, 3) + 1]
        /\ Chromosome(0, Xor32(Constructed.chromosomeValue, OneShiftedLeft(27)),
                      None).lineColor = Constructed.lineColor
        /\ Chromosome(0, Xor32(Constructed.chromosomeValue, OneShiftedLeft(31)),
                      None).fillColor = Constructed.fillColor

\* A chromosome was constructed whose line-color field is 8 + 3 and whose
\* fill-color field is 8 + 5 (bits 27 and 31 set).
C13_Witness ==
    /\ heap # <<>>
    /\ UpperField(Constructed.chromosomeValue, 24, 4) = 11
    /\ UpperField(Constructed.chromosomeValue, 28, 4) = 13
    /\ Constructed.lineColor = "yellow"
    /\ Constructed.fillColor = "blue"


\* The last call was childSegmentPositions; Prior is the parent end position
\* it was given and Children the list it returned.
ChildrenCalled == heap # <<>> /\ lastCall.op = "childSegmentPositions"

Prior == lastCall.penPosition

Children == lastCall.positions

\* The pen position d pixels from Prior along its heading, with Prior's
\* heading and chirality.
PriorAdvanced(d) ==
    [xPosition |-> Prior.xPosition + d * Cos1000(Prior.heading),
     yPosition |-> Prior.yPosition + d * Sin1000(Prior.heading),
     heading |-> Prior.heading,
     chiralityRight |-> Prior.chiralityRight]

\* C14: for a non-terminated chromosome of straight symmetry and
\* branchCount 1, 2 or 3, childSegmentPositions returns exactly branchCount
\* pen positions; the k-th (k = 0..branchCount-1) lies k*length from the
\* parent end position along the parent heading and has the parent's
\* heading and chirality.
C14_StraightChildren ==
    (/\ ChildrenCalled
     /\ ~Constructed.terminated
     /\ Constructed.symmetryBits = 0
     /\ Constructed.branchCount \in {1, 2, 3})
    => /\ Len(Children) = Constructed.branchCount
       /\ \A k \in 0..(Constructed.branchCount - 1) :
              Children[k + 1] = PriorAdvanced(k * Constructed.length)

\* childSegmentPositions made three straight children of positive length
\* from a left-handed parent position of oblique heading.
C14_Witness ==
    /\ ChildrenCalled
    /\ ~Constructed.terminated
    /\ Constructed.symmetryBits = 0
    /\ Constructed.branchCount = 3
    /\ Constructed.length > 0
    /\ Prior.heading = 200
    /\ ~Prior.chiralityRight
    /\ Len(Children) = 3

\* C15: childSegmentPositions returns 0 pen positions when the chromosome is
\* terminated, branchCount when the symmetry is straight, same-handed only
\* or opposite-handed only, and 2*branchCount when it is bilateral; never
\* more than 6, and 0 only when the chromosome is terminated.
C15_ChildCount ==
    ChildrenCalled =>
        /\ Len(Children) =
               IF Constructed.terminated THEN 0
               ELSE IF Constructed.symmetryBits = 3 THEN 2 * Constructed.branchCount
               ELSE Constructed.branchCount
        /\ Len(Children) <= 6
        /\ Len(Children) = 0 => Constructed.terminated

\* childSegmentPositions made six children for a bilateral chromosome of
\* three branches.
C15_Witness ==
    /\ ChildrenCalled
    /\ Constructed.symmetryBits = 3
    /\ Constructed.branchCount = 3
    /\ Len(Children) = 6

\* The heading Prior's heading becomes after k turns by the branch angle:
\* clockwise when chiralityRight, counter-clockwise otherwise.
PriorTurned(k, chiralityRight) ==
    IF chiralityRight
    THEN (Prior.heading + 720 - k * Constructed.branchAngle) % 360
    ELSE (Prior.heading + k * Constructed.branchAngle) % 360

\* The k-th pen position of a pass of the given chirality.
PassChild(k, chiralityRight) ==
    [xPosition |-> Prior.xPosition, yPosition |-> Prior.yPosition,
     heading |-> PriorTurned(k, chiralityRight),
     chiralityRight |-> chiralityRight]

\* C20: for a non-terminated chromosome of non-straight symmetry, every pen
\* position childSegmentPositions returns lies at the parent end position;
\* the k-th of a pass (k = 1..branchCount) has the parent heading turned by
\* k*branchAngle, clockwise when the pass chirality is right and
\* counter-clockwise when left; the same-handed pass uses and records the
\* parent's chirality, the opposite-handed pass the flipped one; each pass
\* starts from the parent heading; in bilateral mode the same-handed
\* positions come first.
C20_HandedChildren ==
    (/\ ChildrenCalled
     /\ ~Constructed.terminated
     /\ Constructed.symmetryBits # 0)
    => Children =
           (IF Constructed.symmetryBits \in {1, 3}
            THEN [k \in 1..Constructed.branchCount |->
                      PassChild(k, Prior.chiralityRight)]
            ELSE <<>>)
           \o
           (IF Constructed.symmetryBits \in {2, 3}
            THEN [k \in 1..Constructed.branchCount |->
                      PassChild(k, ~Prior.chiralityRight)]
            ELSE <<>>)

\* childSegmentPositions made the children of a bilateral chromosome of three
\* branches and a branch angle of 20 degrees from a left-handed parent.
C20_Witness ==
    /\ ChildrenCalled
    /\ Constructed.symmetryBits = 3
    /\ Constructed.branchCount = 3
    /\ Constructed.branchAngle = 20
    /\ ~Prior.chiralityRight
    /\ Prior.heading = 0
    /\ Children[3].heading = 60
    /\ Children[6].heading = 300


\* The last call was segmentOutOfBounds / drawSingleSegment, with a panel and
\* a pen position (Snapshot) or with one of them absent.
Present == lastCall.panel # None /\ lastCall.penPosition # None

BoundsTested == heap # <<>> /\ lastCall.op = "segmentOutOfBounds"

SegmentDrawn == heap # <<>> /\ lastCall.op = "drawSingleSegment"

Snapshot == lastCall.penPosition

\* The point d pixels from Snapshot along its heading.
SnapshotAdvanced(d) ==
    [x |-> Snapshot.xPosition + d * Cos1000(Snapshot.heading),
     y |-> Snapshot.yPosition + d * Sin1000(Snapshot.heading)]

\* The pen is at the point.
PenAt(point) == pen.x = point.x /\ pen.y = point.y

\* C16: after drawSingleSegment returns for a present panel and pen
\* position, for every shape and length, the pen is at the position
\* advanced by length along its heading, has that heading, and is up.
C16_DrawExitState ==
    (SegmentDrawn /\ Present) =>
        /\ PenAt(SnapshotAdvanced(Constructed.length))
        /\ pen.heading = Snapshot.heading
        /\ ~pen.down

\* drawSingleSegment drew a dot of odd diameter with a pen that was down.
C16_Witness ==
    /\ SegmentDrawn
    /\ Present
    /\ Constructed.shape = _SHAPE_DOT_VALUE
    /\ Constructed.length % 2 = 1
    /\ lastCall.penBefore.down
    /\ Snapshot.heading = 200
    /\ \E i \in 1..Len(pen.canvas) : pen.canvas[i].kind = "dot"

\* C17: segmentOutOfBounds returns True whenever the panel or the pen
\* position is None, and drawSingleSegment does nothing then; in both cases
\* the pen's position, heading and state are as before the call.
C17_AbsentArguments ==
    ((BoundsTested \/ SegmentDrawn) /\ ~Present) =>
        /\ pen = lastCall.penBefore
        /\ BoundsTested => lastCall.outOfBounds

\* segmentOutOfBounds was called with a panel and no pen position, the pen
\* being down.
C17_Witness ==
    /\ BoundsTested
    /\ lastCall.panel # None
    /\ lastCall.penPosition = None
    /\ lastCall.outOfBounds
    /\ pen.down

\* C18: for every shape and length, the pen position after segmentOutOfBounds
\* returns False, which display hands to the next generation's chromosome,
\* is the end of the segment: the pen position advanced by length along
\* its heading, where drawSingleSegment leaves the pen.
C18_EndOfSegment ==
    (BoundsTested /\ Present /\ ~lastCall.outOfBounds) =>
        /\ PenAt(SnapshotAdvanced(Constructed.length))
        /\ pen.x = drawSingleSegment(Constructed, lastCall.panel, Snapshot,
                                     lastCall.penBefore).x
        /\ pen.y = drawSingleSegment(Constructed, lastCall.panel, Snapshot,
                                     lastCall.penBefore).y

\* The boundaries of the panel of the last call moved inward by d pixels,
\* and whether the point is on or beyond one of them.
OnOrBeyond(point, d) ==
    \/ point.x <= Fixed(lastCall.panel.interiorLeftX + d)
    \/ point.x >= Fixed(lastCall.panel.interiorRightX - d)
    \/ point.y <= Fixed(lastCall.panel.interiorBottomY + d)
    \/ point.y >= Fixed(lastCall.panel.interiorTopY - d)

\* C19: for a present panel and pen position, segmentOutOfBounds returns
\* True exactly when the tested point is on or beyond one of the four
\* boundaries: for a line the point is the pen position advanced by length
\* and the boundaries are the panel's; for the other shapes the point is the
\* pen position advanced by radius = length \div 2 and each boundary is moved
\* inward by radius.  A point on a boundary is out of bounds.
C19_BoundsAnswer ==
    (BoundsTested /\ Present) =>
        (lastCall.outOfBounds <=>
            IF Constructed.shape = 0
            THEN OnOrBeyond(SnapshotAdvanced(Constructed.length), 0)
            ELSE OnOrBeyond(SnapshotAdvanced(Constructed.length \div 2),
                            Constructed.length \div 2))

\* segmentOutOfBounds answered True for a line whose endpoint is exactly on
\* the right boundary of the panel.
C19_Witness ==
    /\ BoundsTested
    /\ Present
    /\ Constructed.shape = 0
    /\ SnapshotAdvanced(Constructed.length).x = Fixed(lastCall.panel.interiorRightX)
    /\ SnapshotAdvanced(Constructed.length).y > Fixed(lastCall.panel.interiorBottomY)
    /\ SnapshotAdvanced(Constructed.length).y < Fixed(lastCall.panel.interiorTopY)
    /\ lastCall.outOfBounds

\* segmentOutOfBounds answered False for a line that starts outside the panel
\* and ends inside it.
C19_CrossingLine ==
    /\ BoundsTested
    /\ Present
    /\ Constructed.shape = 0
    /\ OnOrBeyond(SnapshotAdvanced(0), 0)
    /\ ~lastCall.outOfBounds


(***************************************************************************)
(* Further properties of mutatedCopy and of random generation, checked     *)
(* under GenotypeSpec.                                                     *)
(***************************************************************************)
\* Bit b (0..31) of a chromosome value, read by division.
BitOf(chromosomeValue, b) ==
    IF b < 16 THEN (chromosomeValue.lo \div (2 ^ b)) % 2
    ELSE (chromosomeValue.hi \div (2 ^ (b - 16))) % 2

\* How many flips of the last mutatedChild call targeted bit b of the
\* chromosome at position i.
FlipsOf(i, b) ==
    Cardinality({d \in 1..Len(lastCall.draws) :
                     /\ lastCall.draws[d].chromosomeIndex = i - 1
                     /\ lastCall.draws[d].bit = b})

\* The (position, bit) pairs at which the child differs from the parent.
ChangedBits ==
    {pair \in (1..CHROMOSOME_COUNT) \X (0..31) :
         BitOf(ChromosomeAt(lastCall.child, pair[1]).chromosomeValue, pair[2])
             # BitOf(lastCall.objectsBefore[pair[1]].chromosomeValue, pair[2])}

\* C21: each raw value of the child made by mutatedCopy is the parent's
\* value at that index with the bits flipped that the flips targeting that
\* index name (bit positions 0..31); there are 1 or 2 flips, so child and
\* parent differ in at most 2 bit positions over the 4 chromosomes, and no
\* bit above bit 31 is changed.
C21_FlippedBitsOnly ==
    lastCall.op = "mutatedChild" =>
        /\ Len(lastCall.draws) \in 1..MUTATION_RATE_MAXIMUM
        /\ \A d \in 1..Len(lastCall.draws) : lastCall.draws[d].bit \in 0..31
        /\ \A i \in 1..CHROMOSOME_COUNT :
               /\ ChromosomeAt(lastCall.child, i).chromosomeValue.hi \in 0..65535
               /\ ChromosomeAt(lastCall.child, i).chromosomeValue.lo \in 0..65535
               /\ \A b \in 0..31 :
                      BitOf(ChromosomeAt(lastCall.child, i).chromosomeValue, b) =
                          (BitOf(lastCall.objectsBefore[i].chromosomeValue, b)
                               + FlipsOf(i, b)) % 2
        /\ Cardinality(ChangedBits) <= 2

\* mutatedChild flipped bit 0 and bit 31 of the same chromosome, whose bit 31
\* was set.
C21_Witness ==
    /\ lastCall.op = "mutatedChild"
    /\ Len(lastCall.draws) = 2
    /\ lastCall.draws[1].chromosomeIndex = lastCall.draws[2].chromosomeIndex
    /\ lastCall.draws[1].bit = 0
    /\ lastCall.draws[2].bit = 31
    /\ BitOf(lastCall.objectsBefore[lastCall.draws[1].chromosomeIndex + 1]
                 .chromosomeValue, 31) = 1
    /\ Cardinality(ChangedBits) = 2


\* The last call generated the chromosomes of the genotype it made: Creature()
\* or Genotype(chromosomes) with a list whose length is not 4.
Generated ==
    \/ lastCall.op = "random"
    \/ lastCall.op = "supplied" /\ Len(lastCall.supplied) # CHROMOSOME_COUNT

ChildChirality(chromosome, parentRight, k) ==
    IF chromosome.symmetryBits = _SYMMETRY_OPPOSITE_HANDED_VALUE THEN ~parentRight
    ELSE IF /\ chromosome.symmetryBits
                  = _SYMMETRY_SAME_HANDED_VALUE + _SYMMETRY_OPPOSITE_HANDED_VALUE
            /\ k > chromosome.branchCount
    THEN ~parentRight
    ELSE parentRight

\* The k-th child of the segment at index i of generation g, in the list of
\* generation g + 1.
ChildOf(g, i, k) == Pending(g + 1)[(i - 1) * ChildCount(chromosomes[g + 2]) + k]

\* C25: in display, the children of a segment found in bounds are generated
\* from an end snapshot carrying the chirality of the segment's own start
\* snapshot: they start with that chirality, or with the flipped one when an
\* opposite-handed pass records them, and so down the tree; the stored start
\* snapshot is as it was when tested, generating children does not modify it.
C25_ChiralityInherited ==
    \A t \in 1..Len(tested) :
        ~tested[t].outOfBounds =>
            /\ Pending(tested[t].generation)[tested[t].index] = tested[t].penPosition
            /\ tested[t].generation < CHROMOSOME_COUNT - 1 =>
                   /\ Len(Pending(tested[t].generation + 1))
                          >= tested[t].index
                               * ChildCount(chromosomes[tested[t].generation + 2])
                   /\ \A k \in 1..ChildCount(chromosomes[tested[t].generation + 2]) :
                          ChildOf(tested[t].generation, tested[t].index, k).chiralityRight
                              = ChildChirality(chromosomes[tested[t].generation + 2],
                                               tested[t].penPosition.chiralityRight, k)

\* A segment recorded by an opposite-handed pass, left-handed, was found in
\* bounds and its child on a straight chromosome is left-handed too; another
\* segment's children were flipped by an opposite-handed pass.
C25_Witness ==
    /\ \E t \in 1..Len(tested) :
           /\ ~tested[t].outOfBounds
           /\ tested[t].generation \in 1..(CHROMOSOME_COUNT - 2)
           /\ ~tested[t].penPosition.chiralityRight
           /\ chromosomes[tested[t].generation + 2].symmetryBits = _SYMMETRY_STRAIGHT_VALUE
           /\ ChildCount(chromosomes[tested[t].generation + 2]) > 0
           /\ ~ChildOf(tested[t].generation, tested[t].index, 1).chiralityRight
    /\ \E t \in 1..Len(tested) :
           /\ ~tested[t].outOfBounds
           /\ tested[t].generation < CHROMOSOME_COUNT - 1
           /\ chromosomes[tested[t].generation + 2].symmetryBits
                  = _SYMMETRY_OPPOSITE_HANDED_VALUE
           /\ ChildCount(chromosomes[tested[t].generation + 2]) > 0
           /\ ChildOf(tested[t].generation, tested[t].index, 1).chiralityRight
                  # tested[t].penPosition.chiralityRight


(***************************************************************************)
(* Termination and resources of Creature.display, checked under FairSpec.  *)
(***************************************************************************)
\* The most pen positions childSegmentPositions makes of one segment: a
\* bilateral chromosome of branch count 3.
MaxChildren == 2 * ShiftRight(_BRANCH_COUNT_GENE_BITS, _BRANCH_COUNT_SHIFT_NUMBER)

\* The bounds tests made for generation g, and those of them answered in bounds.
TestedOf(g) == {t \in 1..Len(tested) : tested[t].generation = g}

ValidatedOf(g) == {t \in TestedOf(g) : ~tested[t].outOfBounds}

\* What a call of display uses at most.
DisplayResources ==
    /\ \A g \in Generations : Cardinality(TestedOf(g)) <= _MAX_CHROMOSOME_SEGMENTS
    /\ Len(tested) <= CHROMOSOME_COUNT * _MAX_CHROMOSOME_SEGMENTS
    /\ \A g \in 0..(CHROMOSOME_COUNT - 2) :
           /\ Len(Pending(g + 1)) <= MaxChildren * Cardinality(ValidatedOf(g))
           /\ Len(Pending(g + 1)) <= MaxChildren * Len(Pending(g))
           /\ Len(Pending(g + 1)) <= MaxChildren * _MAX_CHROMOSOME_SEGMENTS
    /\ Len(drawn) <= CHROMOSOME_COUNT * _MAX_CHROMOSOME_SEGMENTS
    /\ ReturnedTrue => Len(drawn) <= Len(tested)

\* C23: Creature.display always terminates: every call returns; it
\* bounds-tests at most 32 snapshots per generation and at most 128 in all,
\* no generation's pending list grows beyond 6 times the previous
\* generation's validated list, at most 192, and a display that succeeds
\* draws at most 128 segments.
C23_DisplayTerminatesBounded == []DisplayResources /\ <>(pc = "done")

\* A display that tested a full generation of 32 snapshots, every one with
\* the most children there are, and returned.
C23_Witness ==
    /\ pc = "done"
    /\ \E g \in 0..(CHROMOSOME_COUNT - 2) :
           /\ Cardinality(ValidatedOf(g)) = _MAX_CHROMOSOME_SEGMENTS
           /\ Len(Pending(g + 1)) = MaxChildren * _MAX_CHROMOSOME_SEGMENTS


(***************************************************************************)
(* Properties of PenPosition, checked under PenPositionSpec.               *)
(***************************************************************************)
\* The object reference number r refers to, now and before the last call.
Held(r) == heap[segmentPenPositions[r]]

HeldBefore(r) == lastCall.heapBefore[lastCall.positionsBefore[r]]

\* The object the last call was made on, now and before the call.
Self == Held(lastCall.self)

SelfBefore == HeldBefore(lastCall.self)

\* Every object held through a reference other than the one the last call
\* was made through is as it was before the call.
OthersUntouched ==
    \A r \in 1..Len(lastCall.positionsBefore) :
        r # lastCall.self => Held(r) = HeldBefore(r)

\* Where penPosition is saved and where the cursor p is are the same.
SavedIs(penPosition, p) ==
    /\ penPosition.xPosition = p.x
    /\ penPosition.yPosition = p.y
    /\ penPosition.heading = p.heading

\* C22: savePosition stores the cursor's x, y and heading; restore sets the
\* cursor to exactly the saved x, y and heading and leaves the pen up,
\* whatever the cursor did since the save, drawing nothing; clone returns a
\* snapshot of equal x, y, heading and chirality without moving the cursor,
\* and a later flipChirality or savePosition through either reference does
\* not change the object of any other; flipChirality changes neither
\* position nor heading, and applied twice gives back the chirality.
C22_SnapshotIsValue ==
    /\ lastCall.op \in {"new", "savePosition"} =>
           /\ SavedIs(Self, pen)
           /\ pen = lastCall.penBefore
           /\ OthersUntouched
    /\ lastCall.op = "savePosition" => Self.chiralityRight = SelfBefore.chiralityRight
    /\ lastCall.op = "restore" =>
           /\ SavedIs(Self, pen)
           /\ ~pen.down
           /\ pen.canvas = lastCall.penBefore.canvas
           /\ heap = lastCall.heapBefore
    /\ lastCall.op = "clone" =>
           /\ Held(Len(segmentPenPositions)) = SelfBefore
           /\ pen = lastCall.penBefore
           /\ OthersUntouched
           /\ Self = SelfBefore
    /\ lastCall.op = "flipChirality" =>
           /\ Self = [SelfBefore EXCEPT !.chiralityRight = ~SelfBefore.chiralityRight]
           /\ pen = lastCall.penBefore
           /\ OthersUntouched
           /\ (lastCall.previous.op = "flipChirality"
                 /\ lastCall.previous.self = lastCall.self) =>
                  Self = lastCall.previous.heapBefore[segmentPenPositions[lastCall.self]]

\* A snapshot was cloned and the clone's chirality flipped at once: the
\* original is as it was and differs from the clone in chirality alone.
C22_Witness ==
    /\ lastCall.op = "flipChirality"
    /\ lastCall.previous.op = "clone"
    /\ lastCall.self = Len(segmentPenPositions)
    /\ lastCall.previous.self = 1
    /\ Held(1) = HeldBefore(1)
    /\ Held(1) = [Self EXCEPT !.chiralityRight = ~Self.chiralityRight]
    /\ ~SavedIs(Self, pen)

\* The cursor moved on after a second snapshot was taken or cloned, and the
\* position was saved anew through one of the two references: the two
\* snapshots differ.
C22_SavedAnewWitness ==
    /\ lastCall.op = "savePosition"
    /\ lastCall.previous.op = "cursor"
    /\ Len(segmentPenPositions) = 2
    /\ Held(1) # Held(2)
    /\ SelfBefore # Self

\* The cursor drew a line away from a saved position and was restored to it.
C22_RestoredWitness ==
    /\ lastCall.op = "restore"
    /\ lastCall.penBefore.down
    /\ ~SavedIs(Self, lastCall.penBefore)
    /\ lastCall.penBefore.canvas # <<>>

\* A chirality was flipped twice.
C22_FlippedTwiceWitness ==
    /\ lastCall.op = "flipChirality"
    /\ lastCall.previous.op = "flipChirality"
    /\ lastCall.previous.self = lastCall.self
    /\ Len(segmentPenPositions) > 1


=============================================================================
